---- MODULE Spec2Model ----
(***************************************************************************)
(* Model of the expression engine jakub-gawlas/expr: the tree-walking      *)
(* evaluator (eval.go, runtime.go) and the helper operators of the         *)
(* bytecode virtual machine (package vm).                                  *)
(*                                                                         *)
(* Go values (what an interface{} can hold) are records with a tag:        *)
(*   [tag |-> "nil"]                       the nil interface               *)
(*   [tag |-> "bool", b |-> TRUE]                                          *)
(*   [tag |-> "int" | "int64" | "uint8" ..., i |-> 3]                      *)
(*   [tag |-> "float64", f |-> [n |-> 1, d |-> 2]]    the float 0.5        *)
(*   [tag |-> "string", s |-> "a"]                                         *)
(*   [tag |-> "slice", elems |-> <<e1, ..., en>>]                          *)
(*   [tag |-> "range", elem |-> "int", lo |-> 1, len |-> 5]                *)
(*        the slice whose i-th element is lo + i (0 <= i < len), the       *)
(*        shape built by the fill loop of makeRange                        *)
(*   [tag |-> "map", key |-> "string", m |-> (k1 :> e1 @@ ...)]            *)
(*   [tag |-> "struct", fields |-> [Field |-> e1, ...]]                    *)
(*   [tag |-> "ptr", elem |-> "struct", to |-> x]   pointer to x (nil: x nil) *)
(*   [tag |-> "rvalue", rv |-> v]          a reflect.Value held as a value *)
(*   [tag |-> "func", ins |-> 1, outs |-> <<x>>]                           *)
(*        a func that takes ins arguments and returns the values outs;     *)
(*        a struct with methods has them in a further field `methods`      *)
(* An element e of a container whose static element type is interface{}   *)
(* is stored boxed, [tag |-> "iface", boxed |-> x]; an element of a        *)
(* concrete element type is stored bare.  The payload field differs from   *)
(* type to type, so that two values of different types are comparable.     *)
(*                                                                         *)
(* A float is a fraction n/d in lowest terms with d > 0; d = 0 encodes     *)
(* the IEEE specials: 1/0 is +Inf, -1/0 is -Inf, 0/0 is NaN.  Rounding     *)
(* and the sign of zero are not modelled.                                  *)
(*                                                                         *)
(* A reflect.Value is [kind |-> k, val |-> x]: its Kind() and the Go value *)
(* it holds.  kind "invalid" is the zero Value, kind "interface" a Value   *)
(* of static type interface{} (an element of an interface-typed            *)
(* container).                                                             *)
(*                                                                         *)
(* Every Go function is an operator returning an outcome                   *)
(*   [kind |-> "ok", val |-> result] | [kind |-> "err", msg |-> m]         *)
(*   | [kind |-> "panic", msg |-> m]                                       *)
(***************************************************************************)
EXTENDS Integers, Sequences, FiniteSets, TLC

(***************************************************************************)
(* Bounds of the model.                                                    *)
(***************************************************************************)
MaxNum == 2

MaxLen == 2

(***************************************************************************)
(* Outcomes.                                                               *)
(***************************************************************************)
GoNil == [tag |-> "nil"]

Ok(x) == [kind |-> "ok", val |-> x, msg |-> ""]

Err(m) == [kind |-> "err", val |-> GoNil, msg |-> m]

Panic(m) == [kind |-> "panic", val |-> GoNil, msg |-> m]

IsOk(o) == o.kind = "ok"

(***************************************************************************)
(* float64 arithmetic on fractions.                                        *)
(***************************************************************************)
Abs(x) == IF x < 0 THEN -x ELSE x

Sign(x) == IF x < 0 THEN -1 ELSE IF x > 0 THEN 1 ELSE 0

RECURSIVE GCD(_, _)
GCD(a, b) == IF b = 0 THEN a ELSE GCD(b, a % b)

\* Go's integer division truncates toward zero; TLA+'s \div floors.
Quo(a, b) == Sign(a) * Sign(b) * (Abs(a) \div Abs(b))

\* Go's remainder has the sign of the dividend.
Rem(a, b) == a - b * Quo(a, b)

PosInf == [n |-> 1, d |-> 0]

NegInf == [n |-> -1, d |-> 0]

NaN == [n |-> 0, d |-> 0]

Frac(n, d) ==
    IF d = 0 THEN [n |-> Sign(n), d |-> 0]
    ELSE LET g == GCD(Abs(n), Abs(d))
         IN  [n |-> Sign(d) * (n \div g), d |-> Abs(d) \div g]

FromInt(i) == [n |-> i, d |-> 1]

IsNaN(x) == x.d = 0 /\ x.n = 0

IsInf(x) == x.d = 0 /\ x.n # 0

FNeg(x) == [n |-> -x.n, d |-> x.d]

FAdd(x, y) ==
    IF IsNaN(x) \/ IsNaN(y) THEN NaN
    ELSE IF IsInf(x) /\ IsInf(y) THEN (IF x.n = y.n THEN x ELSE NaN)
    ELSE IF IsInf(x) THEN x
    ELSE IF IsInf(y) THEN y
    ELSE Frac(x.n * y.d + y.n * x.d, x.d * y.d)

FSub(x, y) == FAdd(x, FNeg(y))

FMul(x, y) ==
    IF IsNaN(x) \/ IsNaN(y) THEN NaN
    ELSE IF IsInf(x) \/ IsInf(y)
         THEN (IF x.n = 0 \/ y.n = 0 THEN NaN
               ELSE [n |-> Sign(x.n) * Sign(y.n), d |-> 0])
    ELSE Frac(x.n * y.n, x.d * y.d)

FDiv(x, y) ==
    IF IsNaN(x) \/ IsNaN(y) THEN NaN
    ELSE IF IsInf(x) THEN (IF IsInf(y) THEN NaN
                           ELSE [n |-> x.n * (IF y.n < 0 THEN -1 ELSE 1), d |-> 0])
    ELSE IF IsInf(y) THEN FromInt(0)
    ELSE IF y.n = 0 THEN [n |-> Sign(x.n), d |-> 0]
    ELSE Frac(x.n * y.d, x.d * y.n)

FEq(x, y) == ~IsNaN(x) /\ ~IsNaN(y) /\ x = y

FLess(x, y) ==
    IF IsNaN(x) \/ IsNaN(y) THEN FALSE
    ELSE IF x = y THEN FALSE
    ELSE IF x.d = 0 THEN x.n < 0
    ELSE IF y.d = 0 THEN y.n > 0
    ELSE x.n * y.d < y.n * x.d

\* Conversion float64 -> int64 / int of a finite float: truncation toward zero.
Trunc(x) == Quo(x.n, x.d)

(***************************************************************************)
(* Constructors of Go values.                                              *)
(***************************************************************************)
BoolV(b) == [tag |-> "bool", b |-> b]

IntV(i) == [tag |-> "int", i |-> i]

Int64V(i) == [tag |-> "int64", i |-> i]

Uint8V(i) == [tag |-> "uint8", i |-> i]

FloatV(n, d) == [tag |-> "float64", f |-> Frac(n, d)]

Float64V(f) == [tag |-> "float64", f |-> f]

StrV(s) == [tag |-> "string", s |-> s]

SliceV(s) == [tag |-> "slice", elems |-> s]

Box(x) == [tag |-> "iface", boxed |-> x]

Unbox(e) == IF e.tag = "iface" THEN e.boxed ELSE e

SignedTags == {"int", "int8", "int16", "int32", "int64"}

UnsignedTags == {"uint", "uint8", "uint16", "uint32", "uint64"}

FloatTags == {"float32", "float64"}

NumericTags == SignedTags \cup UnsignedTags \cup FloatTags

Bits(tag) ==
    IF tag \in {"int8", "uint8"} THEN 8
    ELSE IF tag \in {"int16", "uint16"} THEN 16
    ELSE IF tag \in {"int32", "uint32"} THEN 32
    ELSE 64

\* The value of an integer result of type tag: Go wraps modulo 2^width.
\* The operands of the model stay far below 2^31, so only the 8 and 16 bit
\* types can wrap.
Wrap(tag, i) ==
    IF Bits(tag) > 16 THEN i
    ELSE LET m == 2 ^ Bits(tag)
             r == i % m
         IN  IF tag \in UnsignedTags THEN r
             ELSE IF r >= m \div 2 THEN r - m ELSE r

(***************************************************************************)
(* reflect.Value.                                                          *)
(***************************************************************************)
null == [kind |-> "invalid", val |-> GoNil]

KindOf(x) ==
    IF x.tag = "rvalue" THEN "struct"
    ELSE IF x.tag = "range" THEN "slice"
    ELSE x.tag

ValueOf(x) == IF x.tag = "nil" THEN null ELSE [kind |-> KindOf(x), val |-> x]

IsValid(v) == v.kind # "invalid"

\* The Value of a container element e: of kind Interface when the element
\* type is interface{}, of the element's own kind otherwise.
ElemValue(e) ==
    IF e.tag = "iface" THEN [kind |-> "interface", val |-> e.boxed] ELSE ValueOf(e)

SliceLen(x) == IF x.tag = "range" THEN x.len ELSE Len(x.elems)

\* element i (0-based) of a slice value
SliceAt(x, i) ==
    IF x.tag = "range"
    THEN (IF x.elem = "float64" THEN FloatV(x.lo + i, 1) ELSE IntV(x.lo + i))
    ELSE x.elems[i + 1]

\* an Index that wraps the index around instead of checking it
IndexWrapping(v, i) ==
    IF SliceLen(v.val) = 0 THEN Ok(null)
    ELSE Ok(ElemValue(SliceAt(v.val, i % SliceLen(v.val))))

\* reflect.Value.Index
Index(v, i) ==
    IF i < 0 \/ i >= SliceLen(v.val)
    THEN Panic("reflect: slice index out of range")
    ELSE Ok(ElemValue(SliceAt(v.val, i)))

\* reflect.Value.MapIndex: the key must be assignable to the map's key type.
MapIndex(v, k) ==
    IF ~IsValid(k) THEN Panic("reflect: call of reflect.Value.MapIndex on zero Value")
    ELSE IF v.val.key # "interface" /\ k.kind # v.val.key
    THEN Panic("reflect.Value.MapIndex: value is not assignable to key type")
    ELSE IF k.val \in DOMAIN v.val.m THEN Ok(ElemValue(v.val.m[k.val]))
    ELSE Ok(null)

\* reflect.Value.FieldByName; the fields of a reflect.Value are unexported
\* and none of them bears a name an expression can spell.
FieldByName(v, name) ==
    IF v.val.tag = "rvalue" THEN null
    ELSE IF name \in DOMAIN v.val.fields THEN ElemValue(v.val.fields[name])
    ELSE null

\* a Go func that takes ins arguments and returns the values outs
FuncV(ins, outs) == [tag |-> "func", ins |-> ins, outs |-> outs]

\* reflect.Value.MethodByName: the zero Value when the type has no such
\* method; the methods of a struct are in its field `methods`
MethodByName(v, name) ==
    IF v.kind = "struct" /\ "methods" \in DOMAIN v.val /\ name \in DOMAIN v.val.methods
    THEN ValueOf(v.val.methods[name])
    ELSE null

\* reflect.Value.Call: panics unless v is a func called with as many
\* arguments as it takes; returns the Values of the results
Call(v, in) ==
    IF v.kind # "func" THEN Panic("reflect: call of reflect.Value.Call on " \o v.kind \o " Value")
    ELSE IF Len(in) # v.val.ins THEN Panic("reflect: Call with wrong number of input arguments")
    ELSE Ok([j \in 1..Len(v.val.outs) |-> ValueOf(v.val.outs[j])])

\* reflect.Value.Elem of a pointer
Elem(v) == ValueOf(v.val.to)

\* reflect.Value.Interface
Interface(v) ==
    IF IsValid(v) THEN Ok(v.val)
    ELSE Panic("reflect: call of reflect.Value.Interface on zero Value")

\* reflect.Value.String: the string itself for a string, a description of
\* the type otherwise.
String(v) == IF v.kind = "string" THEN v.val.s ELSE "<Value>"

\* the sequence of the elements of a slice value
Elems(x) == [j \in 1..SliceLen(x) |-> SliceAt(x, j - 1)]

Norm(x) == IF x.tag = "range" THEN SliceV(Elems(x)) ELSE x

\* reflect.DeepEqual of two Go values: same type and same contents.
DeepEqual(a, b) ==
    /\ KindOf(a) = KindOf(b)
    /\ Norm(a) = Norm(b)
    /\ (a.tag \in FloatTags => ~IsNaN(a.f))

(***************************************************************************)
(* runtime.go: conversions and helpers of the tree-walking evaluator.      *)
(***************************************************************************)
toBool(n, v) ==
    IF v.kind = "bool" THEN Ok(v.val.b)
    ELSE Panic("cannot convert to type bool")

toText(n, v) ==
    IF v.kind = "string" THEN Ok(v.val.s)
    ELSE Panic("cannot convert to type string")

\* cast returns (float64, bool)
cast(v) ==
    IF v.kind \in FloatTags THEN [f |-> v.val.f, ok |-> TRUE]
    ELSE IF v.kind \in SignedTags THEN [f |-> FromInt(v.val.i), ok |-> TRUE]
    ELSE IF v.kind \in UnsignedTags THEN [f |-> FromInt(v.val.i), ok |-> TRUE]
    ELSE [f |-> FromInt(0), ok |-> FALSE]

toNumber(n, v) ==
    IF cast(v).ok THEN Ok(cast(v).f)
    ELSE Panic("cannot convert to type float64")

\* The kind of the type of v with the pointers followed (type.go, dereference).
derefKind(v) == IF v.kind = "ptr" THEN v.val.elem ELSE v.kind

\* isNumber and canBeNumber call v.Type(), which panics on the zero Value;
\* equal consults them on valid Values only (see equal).
isNumber(v) == v.kind = "float64"

\* isNumberType(v.Type()) of type.go, which follows the pointers
canBeNumber(v) == derefKind(v) \in NumericTags

TypeOnZero == Panic("reflect: call of reflect.Value.Type on zero Value")

equalDeep(left, right) ==
    IF ~IsValid(left) \/ ~IsValid(right) THEN Interface(null)
    ELSE Ok(DeepEqual(left.val, right.val))

equal(left, right) ==
    IF ~IsValid(left) THEN TypeOnZero
    ELSE IF isNumber(left)
    THEN (IF ~IsValid(right) THEN TypeOnZero
          ELSE IF canBeNumber(right) THEN Ok(FEq(left.val.f, cast(right).f))
          ELSE equalDeep(left, right))
    ELSE IF canBeNumber(left)
    THEN (IF ~IsValid(right) THEN TypeOnZero
          ELSE IF isNumber(right) THEN Ok(FEq(cast(left).f, right.val.f))
          ELSE equalDeep(left, right))
    ELSE equalDeep(left, right)

\* extract returns (reflect.Value, bool)
Found(v, ok) == Ok([v |-> v, ok |-> ok])

RECURSIVE extract(_, _)
extract(v, i) ==
    IF v.kind = "slice"
    THEN (IF ~cast(i).ok THEN Found(null, FALSE)
          ELSE LET value == Index(v, Trunc(cast(i).f))
               IN  IF IsOk(value) THEN Found(value.val, TRUE) ELSE value)
    ELSE IF v.kind = "string"
    THEN (IF ~cast(i).ok THEN Found(null, FALSE)
          ELSE LET k == Trunc(cast(i).f)
               IN  IF k < 0 \/ k >= Len(v.val.s)
                   THEN Panic("reflect: string index out of range")
                   ELSE Found([kind |-> "uint8",
                               val |-> [tag |-> "uint8", of |-> v.val.s, at |-> k]], TRUE))
    ELSE IF v.kind = "map"
    THEN LET value == MapIndex(v, i)
         IN  IF IsOk(value) THEN Found(value.val, TRUE) ELSE value
    ELSE IF v.kind = "struct" THEN Found(FieldByName(v, String(i)), TRUE)
    ELSE IF v.kind = "ptr" THEN extract(Elem(v), i)
    ELSE IF v.kind = "interface" THEN extract(ValueOf(v.val), i)
    ELSE Found(null, FALSE)

\* getFunc returns (reflect.Value, bool); for a struct the return after
\* MethodByName is unconditional
getFunc(v, i) ==
    LET d == IF v.kind = "ptr" THEN Elem(v) ELSE v
        Indexed(value) ==
            IF ~IsOk(value) THEN value
            ELSE IF IsValid(value.val) THEN Found(value.val, TRUE)
            ELSE Found(null, FALSE)
    IN  IF d.kind = "map" THEN Indexed(MapIndex(d, i))
        ELSE IF d.kind = "struct" THEN Found(MethodByName(v, String(i)), TRUE)
        ELSE Found(null, FALSE)

\* contains returns (bool, error).  needle is a reflect.Value already, so
\* reflect.ValueOf(needle) is a valid Value of kind Struct holding it.
RECURSIVE containsFrom(_, _, _)
containsFrom(needle, array, i) ==
    IF i >= SliceLen(array.val) THEN Ok(FALSE)
    ELSE LET e == equal(Index(array, i).val, needle)
         IN  IF ~IsOk(e) THEN e
             ELSE IF e.val THEN Ok(TRUE)
             ELSE containsFrom(needle, array, i + 1)

RECURSIVE contains(_, _)
contains(needle, array) ==
    IF ~IsValid(array) THEN Interface(array)
    ELSE IF array.val = GoNil THEN Ok(FALSE)
    ELSE IF array.kind = "slice" THEN containsFrom(needle, array, 0)
    ELSE IF array.kind = "map"
    THEN LET n == ValueOf([tag |-> "rvalue", rv |-> needle])
             value == MapIndex(array, n)
         IN  IF ~IsValid(n) THEN Err("cannot use as index")
             ELSE IF ~IsOk(value) THEN value
             ELSE Ok(IsValid(value.val))
    ELSE IF array.kind = "struct"
    THEN LET n == ValueOf([tag |-> "rvalue", rv |-> needle])
         IN  IF ~IsValid(n) \/ n.kind # "string" THEN Err("cannot use as field name")
             ELSE Ok(IsValid(FieldByName(array, String(n))))
    ELSE IF array.kind = "ptr" THEN contains(needle, Elem(array))
    ELSE Err("operator in not defined")

\* reflect.Value.IsNil panics on a kind that cannot be nil.
isNil(v) ==
    IF ~IsValid(v) THEN Ok(TRUE)
    ELSE IF v.kind = "interface" THEN Ok(v.val = GoNil)
    ELSE IF v.kind = "ptr" THEN Ok(v.val.to = GoNil)
    ELSE IF v.kind \in {"map", "slice"} THEN Ok(FALSE)
    ELSE Panic("reflect: call of reflect.Value.IsNil on non-nil-able Value")

(***************************************************************************)
(* eval.go: the tree-walking evaluator.                                    *)
(*                                                                         *)
(* AST nodes are records [type |-> "binaryNode", operator |-> .., ...]     *)
(* with the fields of the Go structs.  The outcome of Eval carries, in     *)
(* ev, the sequence of the nodes whose Eval was entered, in order.         *)
(***************************************************************************)
MaxRangeSize == 1000000

nilNode == [type |-> "nilNode"]

numberNode(value) == [type |-> "numberNode", value |-> value]

boolNode(value) == [type |-> "boolNode", value |-> value]

textNode(value) == [type |-> "textNode", value |-> value]

nameNode(name) == [type |-> "nameNode", name |-> name]

unaryNode(operator, node) == [type |-> "unaryNode", operator |-> operator, node |-> node]

binaryNode(operator, left, right) ==
    [type |-> "binaryNode", operator |-> operator, left |-> left, right |-> right]

indexNode(node, index) == [type |-> "indexNode", node |-> node, index |-> index]

propertyNode(node, property) ==
    [type |-> "propertyNode", node |-> node, property |-> property]

builtinNode(name, arguments) ==
    [type |-> "builtinNode", name |-> name, arguments |-> arguments]

conditionalNode(cond, exp1, exp2) ==
    [type |-> "conditionalNode", cond |-> cond, exp1 |-> exp1, exp2 |-> exp2]

arrayNode(nodes) == [type |-> "arrayNode", nodes |-> nodes]

methodNode(node, method, arguments) ==
    [type |-> "methodNode", node |-> node, method |-> method, arguments |-> arguments]

functionNode(name, arguments) ==
    [type |-> "functionNode", name |-> name, arguments |-> arguments]

\* an outcome with the nodes evaluated to reach it
Ev(o, ev) == [kind |-> o.kind, val |-> o.val, msg |-> o.msg, ev |-> ev]

\* Bitwise operators of Go's int, two's complement of unbounded width.
RECURSIVE BitOp(_, _, _)
BitOp(f, a, b) ==
    LET bit == IF f = "|" THEN (IF a % 2 = 1 \/ b % 2 = 1 THEN 1 ELSE 0)
               ELSE IF f = "&" THEN (IF a % 2 = 1 /\ b % 2 = 1 THEN 1 ELSE 0)
               ELSE (IF a % 2 # b % 2 THEN 1 ELSE 0)
    IN  IF a \in {0, -1} /\ b \in {0, -1} THEN -bit
        ELSE 2 * BitOp(f, a \div 2, b \div 2) + bit

\* math.Pow for a finite base and an integral exponent, the only exponents
\* of the model.
RECURSIVE FPow(_, _)
FPow(x, y) ==
    CASE y.d = 1 /\ y.n = 0 -> FromInt(1)
      [] y.d = 1 /\ y.n > 0 -> FMul(x, FPow(x, FromInt(y.n - 1)))
      [] y.d = 1 /\ y.n < 0 -> FDiv(FromInt(1), FPow(x, FromInt(-y.n)))

\* makeRange(min, max int64) (reflect.Value, error)
makeRange(min, max) ==
    LET size == max - min + 1
    IN  IF size > MaxRangeSize THEN Err("range exceeded max size of 1e6")
        ELSE IF size < 0 THEN Panic("runtime error: makeslice: len out of range")
        ELSE Ok(ValueOf([tag |-> "range", elem |-> "float64", lo |-> min, len |-> size]))

NumV(f) == Ok(ValueOf(Float64V(f)))

BoolRV(b) == Ok(ValueOf(BoolV(b)))

\* binaryNode.Eval after both operands are evaluated (eval.go 124-206)
binaryOp(n, left, right) ==
    LET o == n.operator
        Equality(e) == IF ~IsOk(e) THEN e ELSE BoolRV(IF o = "==" THEN e.val ELSE ~e.val)
        Membership(c) == IF ~IsOk(c) THEN c ELSE BoolRV(IF o = "in" THEN c.val ELSE ~c.val)
        Concat(a, b) ==
            IF ~IsOk(a) THEN a
            ELSE IF ~IsOk(b) THEN b
            ELSE Ok(ValueOf(StrV(a.val \o b.val)))
        Modulo(numerator, denominator) ==
            IF denominator = 0 THEN Err("division by zero")
            ELSE NumV(FromInt(Rem(numerator, denominator)))
        \* the operators on the numbers l and r
        OnNumbers(l, r) ==
            IF o \in {"|", "^", "&"}
            THEN Ok(ValueOf(IntV(BitOp(o, Trunc(l), Trunc(r)))))
            ELSE IF o = "<" THEN BoolRV(FLess(l, r))
            ELSE IF o = ">" THEN BoolRV(FLess(r, l))
            ELSE IF o = ">=" THEN BoolRV(FLess(r, l) \/ FEq(l, r))
            ELSE IF o = "<=" THEN BoolRV(FLess(l, r) \/ FEq(l, r))
            ELSE IF o = "+" THEN NumV(FAdd(l, r))
            ELSE IF o = "-" THEN NumV(FSub(l, r))
            ELSE IF o = "*" THEN NumV(FMul(l, r))
            ELSE IF o = "/"
            THEN (IF FEq(r, FromInt(0)) THEN Err("division by zero")
                  ELSE NumV(FDiv(l, r)))
            ELSE IF o = "%" THEN Modulo(Trunc(l), Trunc(r))
            ELSE IF o = "**" THEN NumV(FPow(l, r))
            ELSE IF o = ".." THEN makeRange(Trunc(l), Trunc(r))
            ELSE Err("implement operator")
        Numbers(l, r) ==
            IF ~IsOk(l) THEN l
            ELSE IF ~IsOk(r) THEN r
            ELSE OnNumbers(l.val, r.val)
    IN  IF o \in {"==", "!="} THEN Equality(equal(left, right))
        ELSE IF o \in {"in", "not in"} THEN Membership(contains(left, right))
        ELSE IF o = "~" THEN Concat(toText(n.left, left), toText(n.right, right))
        ELSE Numbers(toNumber(n.left, left), toNumber(n.right, right))

\* an evaluation of both operands whatever the left one is
evaluatesBoth(operator, left) == FALSE

\* the cases "or" and "and" of binaryNode.Eval return before n.right.Eval:
\* `or` with true when the left operand is true, `and` with false when it
\* is false
returnsEarly(operator, left) ==
    IF operator \in {"or", "||"} THEN left ELSE ~left

RECURSIVE Eval(_, _)
RECURSIVE EvalNodes(_, _, _, _)
RECURSIVE EvalArguments(_, _, _, _)
\* the loop of arrayNode.Eval from element i on; acc is the array so far, a
\* []interface{} whose elements are the reflect.Values of the elements
EvalNodes(n, env, i, acc) ==
    LET Appended(val) ==
            IF ~IsOk(val) THEN Ev(val, acc.ev \o val.ev)
            ELSE EvalNodes(n, env, i + 1,
                           [s |-> Append(acc.s, Box([tag |-> "rvalue", rv |-> val.val])),
                            ev |-> acc.ev \o val.ev])
    IN  IF i > Len(n.nodes) THEN Ev(Ok(ValueOf(SliceV(acc.s))), acc.ev)
        ELSE Appended(Eval(n.nodes[i], env))

\* the loop over n.arguments of methodNode.Eval and functionNode.Eval from
\* argument i on; acc.in is the slice `in` so far: methodNode.Eval appends
\* reflect.ValueOf(i), the Value of the reflect.Value i, functionNode.Eval
\* appends i
EvalArguments(n, env, i, acc) ==
    LET Passed(v) == IF n.type = "methodNode" THEN ValueOf([tag |-> "rvalue", rv |-> v]) ELSE v
        Appended(a) ==
            IF ~IsOk(a) THEN Ev(a, acc.ev \o a.ev)
            ELSE EvalArguments(n, env, i + 1,
                               [in |-> Append(acc.in, Passed(a.val)), ev |-> acc.ev \o a.ev])
    IN  IF i > Len(n.arguments) THEN Ev(Ok(acc.in), acc.ev)
        ELSE Appended(Eval(n.arguments[i], env))

Eval(n, env) ==
    CASE n.type = "nilNode" -> Ev(Ok(null), <<n>>)
      [] n.type \in {"identifierNode", "textNode"} -> Ev(Ok(ValueOf(n.value)), <<n>>)
      [] n.type = "numberNode" -> Ev(Ok(ValueOf(n.value)), <<n>>)
      [] n.type = "boolNode" -> Ev(Ok(ValueOf(n.value)), <<n>>)
      [] n.type = "nameNode" ->
            LET Extracted(x) ==
                    IF ~IsOk(x) THEN Ev(x, <<n>>)
                    ELSE IF ~x.val.ok THEN Ev(Err("undefined: " \o n.name), <<n>>)
                    ELSE Ev(Ok(x.val.v), <<n>>)
            IN  Extracted(extract(ValueOf(env), ValueOf(StrV(n.name))))
      [] n.type = "unaryNode" ->
            LET Negative(v, ev) ==
                    IF ~IsOk(v) THEN Ev(v, ev)
                    ELSE IF n.operator = "-" THEN Ev(NumV(FNeg(v.val)), ev)
                    ELSE IF n.operator = "+" THEN Ev(NumV(v.val), ev)
                    ELSE Ev(Err("implement unary operator"), ev)
                Not(b, ev) == IF ~IsOk(b) THEN Ev(b, ev) ELSE Ev(BoolRV(~b.val), ev)
                Unary(val, ev) ==
                    IF ~IsOk(val) THEN Ev(val, ev)
                    ELSE IF n.operator \in {"not", "!"} THEN Not(toBool(n, val.val), ev)
                    ELSE Negative(toNumber(n, val.val), ev)
                Node(val) == Unary(val, <<n>> \o val.ev)
            IN  Node(Eval(n.node, env))
      [] n.type = "binaryNode" ->
            LET Bool(rb, rev) == IF ~IsOk(rb) THEN Ev(rb, rev) ELSE Ev(BoolRV(rb.val), rev)
                Right(right, rev) ==
                    IF ~IsOk(right) THEN Ev(right, rev)
                    ELSE Bool(toBool(n.right, right.val), rev)
                Logical(lb, lev, right) ==
                    IF ~IsOk(lb) THEN Ev(lb, lev)
                    ELSE IF returnsEarly(n.operator, lb.val) THEN Ev(BoolRV(lb.val), lev)
                    ELSE Right(right, lev \o right.ev)
                Binary(left, lev, right) ==
                    IF ~IsOk(left) THEN Ev(left, lev)
                    ELSE IF n.operator \in {"or", "||", "and", "&&"}
                    THEN Logical(toBool(n.left, left.val), lev, right)
                    ELSE IF ~IsOk(right) THEN Ev(right, lev \o right.ev)
                    ELSE Ev(binaryOp(n, left.val, right.val), lev \o right.ev)
                Left(left, right) == Binary(left, <<n>> \o left.ev, right)
            IN  Left(Eval(n.left, env), Eval(n.right, env))
      [] n.type = "indexNode" ->
            LET Extracted(p, iev) ==
                    IF ~IsOk(p) THEN Ev(p, iev)
                    ELSE IF ~p.val.ok THEN Ev(Err("cannot get index"), iev)
                    ELSE Ev(Ok(p.val.v), iev)
                Indexed(v, vev, i) ==
                    IF ~IsOk(v) THEN Ev(v, vev)
                    ELSE IF ~IsOk(i) THEN Ev(i, vev \o i.ev)
                    ELSE Extracted(extract(v.val, i.val), vev \o i.ev)
                Operands(v, i) == Indexed(v, <<n>> \o v.ev, i)
            IN  Operands(Eval(n.node, env), Eval(n.index, env))
      [] n.type = "propertyNode" ->
            LET Nil(nl, ev) ==
                    IF ~IsOk(nl) THEN Ev(nl, ev)
                    ELSE IF nl.val THEN Ev(Err("is nil"), ev)
                    ELSE Ev(Err("undefined (type has no field)"), ev)
                Extracted(v, p, ev) ==
                    IF ~IsOk(p) THEN Ev(p, ev)
                    ELSE IF p.val.ok THEN Ev(Ok(p.val.v), ev)
                    ELSE Nil(isNil(v.val), ev)
                Property(v, ev) ==
                    IF ~IsOk(v) THEN Ev(v, ev)
                    ELSE Extracted(v, extract(v.val, ValueOf(StrV(n.property))), ev)
                Node(v) == Property(v, <<n>> \o v.ev)
            IN  Node(Eval(n.node, env))
      [] n.type = "builtinNode" ->
            \* reflect.TypeOf(i) is the type of the reflect.Value i itself, a
            \* struct: never an array, a slice or a string
            LET Length(i) ==
                    IF ~IsOk(i) THEN Ev(i, <<n>> \o i.ev)
                    ELSE IF KindOf([tag |-> "rvalue", rv |-> i.val]) \in {"array", "slice", "string"}
                    THEN Ev(NumV(FromInt(SliceLen(i.val.val))), <<n>> \o i.ev)
                    ELSE Ev(Err("invalid argument"), <<n>> \o i.ev)
            IN  IF n.name # "len" THEN Ev(Err("unknown builtin"), <<n>>)
                ELSE IF Len(n.arguments) = 0 THEN Ev(Err("missing argument"), <<n>>)
                ELSE IF Len(n.arguments) > 1 THEN Ev(Err("too many arguments"), <<n>>)
                ELSE Length(Eval(n.arguments[1], env))
      [] n.type = "conditionalNode" ->
            LET Branch(c, cev, a, b) ==
                    IF ~IsOk(c) THEN Ev(c, cev)
                    ELSE IF c.val THEN Ev(a, cev \o a.ev)
                    ELSE Ev(b, cev \o b.ev)
                Conditional(cond, cev, a, b) ==
                    IF ~IsOk(cond) THEN Ev(cond, cev)
                    ELSE Branch(toBool(n.cond, cond.val), cev, a, b)
                Cond(cond, a, b) == Conditional(cond, <<n>> \o cond.ev, a, b)
            IN  Cond(Eval(n.cond, env), Eval(n.exp1, env), Eval(n.exp2, env))
      [] n.type = "arrayNode" -> EvalNodes(n, env, 1, [s |-> <<>>, ev |-> <<n>>])
      [] n.type \in {"methodNode", "functionNode"} ->
            \* `method` and `fn` are reflect.Values: reflect.ValueOf(method)
            \* is the Value of that struct, and it is this Value that is called
            LET Results(out, ev) ==
                    IF ~IsOk(out) THEN Ev(out, ev)
                    ELSE IF Len(out.val) = 0 THEN Ev(Ok(null), ev)
                    ELSE IF Len(out.val) > 1 THEN Ev(Err("must return only one value"), ev)
                    ELSE Ev(Ok(out.val[1]), ev)
                Called(fn, in) ==
                    IF ~IsOk(in) THEN in
                    ELSE Results(Call(ValueOf([tag |-> "rvalue", rv |-> fn]), in.val), in.ev)
                Resolved(fn, ev) ==
                    IF ~IsOk(fn) THEN Ev(fn, ev)
                    ELSE IF ~fn.val.ok
                    THEN Ev(Err(IF n.type = "methodNode" THEN "cannot get method"
                                ELSE "undefined: " \o n.name), ev)
                    ELSE Called(fn.val.v, EvalArguments(n, env, 1, [in |-> <<>>, ev |-> ev]))
                Method(v) ==
                    IF ~IsOk(v) THEN Ev(v, <<n>> \o v.ev)
                    ELSE Resolved(getFunc(v.val, ValueOf(StrV(n.method))), <<n>> \o v.ev)
            IN  IF n.type = "methodNode" THEN Method(Eval(n.node, env))
                ELSE Resolved(getFunc(ValueOf(env), ValueOf(StrV(n.name))), <<n>>)

\* Run returns the named results (out interface{}, err error); ok is
\* err == nil.  A panic of node.Eval unwinds Run with the results still at
\* their zero values.
\* v is what node.Eval(env) returned, or the panic it raised
RunBody(v) ==
    IF v.kind = "panic"
    THEN [out |-> GoNil, ok |-> TRUE, err |-> "", panicking |-> TRUE, r |-> v.msg]
    ELSE IF v.kind = "err"
    THEN [out |-> GoNil, ok |-> FALSE, err |-> v.msg, panicking |-> FALSE, r |-> ""]
    ELSE IF IsValid(v.val)
    THEN [out |-> v.val.val, ok |-> TRUE, err |-> "", panicking |-> FALSE, r |-> ""]
    ELSE [out |-> GoNil, ok |-> TRUE, err |-> "", panicking |-> FALSE, r |-> ""]

\* a Run without the deferred recover: the panic goes on to the caller
withoutRecover(res) == res

\* the deferred function of Run: recover() ends the panic and its value
\* becomes the error
RunDeferred(res) ==
    IF res.panicking
    THEN [out |-> res.out, ok |-> FALSE, err |-> res.r, panicking |-> FALSE, r |-> ""]
    ELSE res

\* Run from the return of node.Eval on
Returned(v) == RunDeferred(RunBody(v))

Run(node, env) == Returned(Eval(node, env))

(***************************************************************************)
(* package vm: the helper operators of the virtual machine.  They take and *)
(* return Go values and signal every failure by a panic.                   *)
(***************************************************************************)
BadAssert == Panic("interface conversion: interface {} is not of the asserted type")

\* One of the type switches `case T: return x OP b.(T)` over the numeric
\* types: the assertion b.(T) panics unless b has the very type of a.
\* Ladder names the case taken: "int", "float", "assert" when the assertion
\* fails, "default" when a is no number.
Ladder(a, b) ==
    IF a.tag \in FloatTags
    THEN (IF b.tag # a.tag THEN "assert" ELSE "float")
    ELSE IF a.tag \in SignedTags \cup UnsignedTags
    THEN (IF b.tag # a.tag THEN "assert" ELSE "int")
    ELSE "default"

IntResult(tag, i) == Ok([tag |-> tag, i |-> Wrap(tag, i)])

FloatResult(tag, f) == Ok([tag |-> tag, f |-> f])

DivideByZero == Panic("runtime error: integer divide by zero")

add(a, b) ==
    IF a.tag = "string"
    THEN (IF b.tag # "string" THEN BadAssert ELSE Ok(StrV(a.s \o b.s)))
    ELSE CASE Ladder(a, b) = "assert" -> BadAssert
           [] Ladder(a, b) = "int" -> IntResult(a.tag, a.i + b.i)
           [] Ladder(a, b) = "float" -> FloatResult(a.tag, FAdd(a.f, b.f))
           [] OTHER -> Panic("invalid operation: +")

subtract(a, b) ==
    CASE Ladder(a, b) = "assert" -> BadAssert
      [] Ladder(a, b) = "int" -> IntResult(a.tag, a.i - b.i)
      [] Ladder(a, b) = "float" -> FloatResult(a.tag, FSub(a.f, b.f))
      [] OTHER -> Panic("invalid operation: -")

multiply(a, b) ==
    CASE Ladder(a, b) = "assert" -> BadAssert
      [] Ladder(a, b) = "int" -> IntResult(a.tag, a.i * b.i)
      [] Ladder(a, b) = "float" -> FloatResult(a.tag, FMul(a.f, b.f))
      [] OTHER -> Panic("invalid operation: *")

divide(a, b) ==
    CASE Ladder(a, b) = "assert" -> BadAssert
      [] Ladder(a, b) = "int" ->
            IF b.i = 0 THEN DivideByZero ELSE IntResult(a.tag, Quo(a.i, b.i))
      [] Ladder(a, b) = "float" -> FloatResult(a.tag, FDiv(a.f, b.f))
      [] OTHER -> Panic("invalid operation: /")

\* modulo has no case for the float types
modulo(a, b) ==
    IF a.tag \in SignedTags \cup UnsignedTags
    THEN (IF b.tag # a.tag THEN BadAssert
          ELSE IF b.i = 0 THEN DivideByZero
          ELSE IntResult(a.tag, Rem(a.i, b.i)))
    ELSE Panic("invalid operation: %")

vmEqual(a, b) ==
    IF a.tag = "string"
    THEN (IF b.tag # "string" THEN BadAssert ELSE Ok(a.s = b.s))
    ELSE CASE Ladder(a, b) = "assert" -> BadAssert
           [] Ladder(a, b) = "int" -> Ok(a.i = b.i)
           [] Ladder(a, b) = "float" -> Ok(FEq(a.f, b.f))
           [] OTHER -> Ok(DeepEqual(a, b))

\* Go orders strings bytewise; Strings lists the strings of the model in
\* that order.
Strings == <<"", "a", "ab", "b", "x", "y">>

StrRank(x) == CHOOSE j \in 1..Len(Strings) : Strings[j] = x

less(a, b) ==
    IF a.tag = "string"
    THEN (IF b.tag # "string" THEN BadAssert ELSE Ok(StrRank(a.s) < StrRank(b.s)))
    ELSE CASE Ladder(a, b) = "assert" -> BadAssert
           [] Ladder(a, b) = "int" -> Ok(a.i < b.i)
           [] Ladder(a, b) = "float" -> Ok(FLess(a.f, b.f))
           [] OTHER -> Panic("invalid operation: <")

more(a, b) ==
    IF a.tag = "string"
    THEN (IF b.tag # "string" THEN BadAssert ELSE Ok(StrRank(a.s) > StrRank(b.s)))
    ELSE CASE Ladder(a, b) = "assert" -> BadAssert
           [] Ladder(a, b) = "int" -> Ok(a.i > b.i)
           [] Ladder(a, b) = "float" -> Ok(FLess(b.f, a.f))
           [] OTHER -> Panic("invalid operation: >")

lessOrEqual(a, b) ==
    IF a.tag = "string"
    THEN (IF b.tag # "string" THEN BadAssert ELSE Ok(StrRank(a.s) <= StrRank(b.s)))
    ELSE CASE Ladder(a, b) = "assert" -> BadAssert
           [] Ladder(a, b) = "int" -> Ok(a.i <= b.i)
           [] Ladder(a, b) = "float" -> Ok(FLess(a.f, b.f) \/ FEq(a.f, b.f))
           [] OTHER -> Panic("invalid operation: <=")

moreOrEqual(a, b) ==
    IF a.tag = "string"
    THEN (IF b.tag # "string" THEN BadAssert ELSE Ok(StrRank(a.s) >= StrRank(b.s)))
    ELSE CASE Ladder(a, b) = "assert" -> BadAssert
           [] Ladder(a, b) = "int" -> Ok(a.i >= b.i)
           [] Ladder(a, b) = "float" -> Ok(FLess(b.f, a.f) \/ FEq(a.f, b.f))
           [] OTHER -> Panic("invalid operation: >=")

negate(i) ==
    IF i.tag \in FloatTags THEN Ok([tag |-> i.tag, f |-> FNeg(i.f)])
    ELSE IF i.tag \in SignedTags \cup UnsignedTags THEN IntResult(i.tag, -i.i)
    ELSE Panic("invalid operation: -")

\* toInt: int(x) of a float truncates toward zero
toInt(a) ==
    IF a.tag \in FloatTags THEN Ok(Trunc(a.f))
    ELSE IF a.tag \in SignedTags \cup UnsignedTags THEN Ok(a.i)
    ELSE Panic("invalid operation: int()")

toFloat64(a) ==
    IF a.tag \in FloatTags THEN Ok(a.f)
    ELSE IF a.tag \in SignedTags \cup UnsignedTags THEN Ok(FromInt(a.i))
    ELSE Panic("invalid operation: float64()")

exponent(a, b) ==
    IF ~IsOk(toFloat64(a)) THEN toFloat64(a)
    ELSE IF ~IsOk(toFloat64(b)) THEN toFloat64(b)
    ELSE Ok(Float64V(FPow(toFloat64(a).val, toFloat64(b).val)))

\* makeRange(a, b interface{}) []int
vmMakeRange(a, b) ==
    LET min == toInt(a)
        max == toInt(b)
        size == max.val - min.val + 1
    IN  IF ~IsOk(min) THEN min
        ELSE IF ~IsOk(max) THEN max
        ELSE IF size < 0 THEN Panic("runtime error: makeslice: len out of range")
        ELSE Ok([tag |-> "range", elem |-> "int", lo |-> min.val, len |-> size])

length(a) ==
    IF KindOf(a) = "slice" THEN Ok(SliceLen(a))
    ELSE IF KindOf(a) = "string" THEN Ok(Len(a.s))
    ELSE Panic("invalid argument for len")

NotContains == Panic("doesn't contains")

RECURSIVE fetch(_, _)
fetch(from, i) ==
    LET v == ValueOf(from)
    IN  IF v.kind = "slice"
        THEN LET index == toInt(i)
                 value == Index(v, index.val)
             IN  IF ~IsOk(index) THEN index
                 ELSE IF ~IsOk(value) THEN value
                 ELSE IF IsValid(value.val) THEN Interface(value.val)
                 ELSE NotContains
        ELSE IF v.kind = "string"
        THEN LET index == toInt(i)
             IN  IF ~IsOk(index) THEN index
                 ELSE IF index.val < 0 \/ index.val >= Len(from.s)
                 THEN Panic("reflect: string index out of range")
                 ELSE Ok([tag |-> "uint8", of |-> from.s, at |-> index.val])
        ELSE IF v.kind = "map"
        THEN LET value == MapIndex(v, ValueOf(i))
             IN  IF ~IsOk(value) THEN value
                 ELSE IF IsValid(value.val) THEN Interface(value.val)
                 ELSE NotContains
        ELSE IF v.kind = "struct"
        THEN LET value == FieldByName(v, String(ValueOf(i)))
             IN  IF IsValid(value) THEN Interface(value) ELSE NotContains
        ELSE IF v.kind = "ptr"
        THEN LET value == Elem(v)
             IN  IF IsValid(value) THEN fetch(value.val, i) ELSE NotContains
        ELSE NotContains

RECURSIVE inFrom(_, _, _)
inFrom(needle, array, i) ==
    IF i >= SliceLen(array) THEN Ok(FALSE)
    ELSE LET e == vmEqual(Unbox(SliceAt(array, i)), needle)
         IN  IF ~IsOk(e) THEN e
             ELSE IF e.val THEN Ok(TRUE)
             ELSE inFrom(needle, array, i + 1)

RECURSIVE in(_, _)
in(needle, array) ==
    LET v == ValueOf(array)
        n == ValueOf(needle)
    IN  IF array = GoNil THEN Ok(FALSE)
        ELSE IF v.kind = "slice" THEN inFrom(needle, array, 0)
        ELSE IF v.kind = "map"
        THEN (IF ~IsValid(n) THEN Panic("cannot use as index")
              ELSE IF ~IsOk(MapIndex(v, n)) THEN MapIndex(v, n)
              ELSE Ok(IsValid(MapIndex(v, n).val)))
        ELSE IF v.kind = "struct"
        THEN (IF ~IsValid(n) \/ n.kind # "string" THEN Panic("cannot use as field name")
              ELSE Ok(IsValid(FieldByName(v, String(n)))))
        ELSE IF v.kind = "ptr"
        THEN (IF IsValid(Elem(v)) THEN in(needle, Elem(v).val) ELSE Ok(FALSE))
        ELSE Panic("operator in not defined")

(***************************************************************************)
(* type.go: the type checker.  A Type is [kind |-> k] with, for the        *)
(* composite kinds, the types it is made of:                               *)
(*   [kind |-> "slice", elem |-> T]     [kind |-> "map", key |-> K, elem |-> T] *)
(*   [kind |-> "ptr", elem |-> T]       [kind |-> "struct", fields |-> [f |-> T]] *)
(*   [kind |-> "func", out |-> <<T1, ...>>]                                *)
(* A struct type with methods has them in a further field `methods`.       *)
(* [kind |-> "nil"] is the nil Type, the type of nil.                      *)
(***************************************************************************)
T(k) == [kind |-> k]

nilType == T("nil")

boolType == T("bool")

numberType == T("float64")

textType == T("string")

interfaceType == T("interface")

arrayType == [kind |-> "slice", elem |-> interfaceType]

mapType == [kind |-> "map", key |-> interfaceType, elem |-> interfaceType]

RECURSIVE dereference(_)
dereference(ntype) ==
    IF ntype = nilType THEN nilType
    ELSE IF ntype.kind = "ptr" THEN dereference(ntype.elem)
    ELSE ntype

isInterfaceType(t) == dereference(t).kind = "interface"

isNumberType(t) == dereference(t).kind \in NumericTags

isBoolType(t) == dereference(t).kind = "bool"

isStringType(t) == dereference(t).kind = "string"

isArrayType(t) == dereference(t).kind \in {"slice", "array"}

isMapType(t) == dereference(t).kind = "map"

\* a check that takes no type for a struct
neverStructType(t) == FALSE

isStructType(t) == dereference(t).kind = "struct"

\* a comparison that looks for an interface{} on the left only
comparableFromLeft(l0, r0) ==
    \/ dereference(l0) = nilType
    \/ dereference(r0) = nilType
    \/ isNumberType(l0) /\ isNumberType(r0)
    \/ dereference(l0).kind = "interface"
    \/ dereference(l0) = dereference(r0)

isComparable(l0, r0) ==
    LET l == dereference(l0)
        r == dereference(r0)
    IN  IF l = nilType \/ r = nilType THEN TRUE
        ELSE IF isNumberType(l) /\ isNumberType(r) THEN TRUE
        ELSE IF l.kind = "interface" THEN TRUE
        ELSE IF r.kind = "interface" THEN TRUE
        ELSE l = r

\* the model has no embedded (anonymous) fields
fieldType(ntype0, name) ==
    LET ntype == dereference(ntype0)
    IN  IF ntype.kind = "interface" THEN [t |-> interfaceType, ok |-> TRUE]
        ELSE IF ntype.kind = "struct" /\ name \in DOMAIN ntype.fields
        THEN [t |-> ntype.fields[name], ok |-> TRUE]
        ELSE IF ntype.kind = "map" THEN [t |-> ntype.elem, ok |-> TRUE]
        ELSE [t |-> nilType, ok |-> FALSE]

indexType(ntype0) ==
    LET ntype == dereference(ntype0)
    IN  IF ntype = nilType THEN [t |-> nilType, ok |-> FALSE]
        ELSE IF ntype.kind = "interface" THEN [t |-> interfaceType, ok |-> TRUE]
        ELSE IF ntype.kind \in {"map", "array", "slice"} THEN [t |-> ntype.elem, ok |-> TRUE]
        ELSE [t |-> nilType, ok |-> FALSE]

\* a struct type may list its methods in a field `methods`; the model has
\* no embedded fields
methodType(ntype0, name) ==
    LET ntype == dereference(ntype0)
    IN  IF ntype = nilType THEN [t |-> nilType, ok |-> FALSE]
        ELSE IF ntype.kind = "interface" THEN [t |-> interfaceType, ok |-> TRUE]
        ELSE IF ntype.kind = "struct"
        THEN (IF "methods" \in DOMAIN ntype /\ name \in DOMAIN ntype.methods
              THEN [t |-> ntype.methods[name], ok |-> TRUE]
              ELSE IF name \in DOMAIN ntype.fields
              THEN [t |-> ntype.fields[name], ok |-> TRUE]
              ELSE [t |-> nilType, ok |-> FALSE])
        ELSE IF ntype.kind = "map" THEN [t |-> ntype.elem, ok |-> TRUE]
        ELSE [t |-> nilType, ok |-> FALSE]

funcType(ntype0) ==
    LET ntype == dereference(ntype0)
    IN  IF ntype = nilType THEN [t |-> nilType, ok |-> FALSE]
        ELSE IF ntype.kind = "interface" THEN [t |-> interfaceType, ok |-> TRUE]
        ELSE IF ntype.kind = "func"
        THEN [t |-> IF Len(ntype.out) > 0 THEN ntype.out[1] ELSE nilType, ok |-> TRUE]
        ELSE [t |-> nilType, ok |-> FALSE]

\* reflect.Type.AssignableTo: to an identical type or to interface{}
AssignableTo(t1, t2) == t1 = t2 \/ t2.kind = "interface"

TypeErr(m) == [ok |-> FALSE, t |-> nilType, msg |-> m]

TypeOk(t) == [ok |-> TRUE, t |-> t, msg |-> ""]

\* the method Type of the nodes, with the table p.types (NoTypes: p.types
\* is nil, and a lookup in it finds nothing)
NoTypes == [name \in {} |-> nilType]

RECURSIVE Type(_, _)
RECURSIVE TypeNodes(_, _, _, _)
\* the loops `for _, node := range nodes { p.Type(&node) }`, then the result
TypeNodes(nodes, i, types, result) ==
    IF i > Len(nodes) THEN result
    ELSE IF ~Type(nodes[i], types).ok THEN Type(nodes[i], types)
    ELSE TypeNodes(nodes, i + 1, types, result)

Type(n, types) ==
    LET Both(P(_), ltype, rtype) == P(ltype) /\ P(rtype)
        NumOrIface(t) == isNumberType(t) \/ isInterfaceType(t)
        BoolOrIface(t) == isBoolType(t) \/ isInterfaceType(t)
        StrOrIface(t) == isStringType(t) \/ isInterfaceType(t)
        Mismatched == TypeErr("invalid operation (mismatched types)")
    IN
    CASE n.type = "nilNode" -> TypeOk(nilType)
      [] n.type = "identifierNode" -> TypeOk(textType)
      [] n.type = "numberNode" -> TypeOk(numberType)
      [] n.type = "boolNode" -> TypeOk(boolType)
      [] n.type = "textNode" -> TypeOk(textType)
      [] n.type = "nameNode" ->
            IF n.name \in DOMAIN types THEN TypeOk(types[n.name])
            ELSE TypeErr("unknown name")
      [] n.type = "unaryNode" ->
            LET ntype == Type(n.node, types)
            IN  IF ~ntype.ok THEN ntype
                ELSE IF n.operator \in {"!", "not"}
                THEN (IF BoolOrIface(ntype.t) THEN TypeOk(boolType)
                      ELSE TypeErr("invalid operation (mismatched type)"))
                ELSE TypeOk(interfaceType)
      [] n.type = "binaryNode" ->
            LET lt == Type(n.left, types)
                rt == Type(n.right, types)
                o == n.operator
                ltype == lt.t
                rtype == rt.t
            IN  IF ~lt.ok THEN lt
                ELSE IF ~rt.ok THEN rt
                ELSE IF o \in {"==", "!="}
                THEN (IF isComparable(ltype, rtype) THEN TypeOk(boolType) ELSE Mismatched)
                ELSE IF o \in {"or", "||", "and", "&&"}
                THEN (IF Both(BoolOrIface, ltype, rtype) THEN TypeOk(boolType) ELSE Mismatched)
                ELSE IF o \in {"in", "not in"}
                THEN (IF StrOrIface(ltype) /\ (isStructType(rtype) \/ isInterfaceType(rtype))
                      THEN TypeOk(boolType)
                      ELSE IF isArrayType(rtype) \/ isMapType(rtype) \/ isInterfaceType(rtype)
                      THEN TypeOk(boolType)
                      ELSE Mismatched)
                ELSE IF o \in {"<", ">", ">=", "<="}
                THEN (IF Both(NumOrIface, ltype, rtype) THEN TypeOk(boolType) ELSE Mismatched)
                ELSE IF o \in {"/", "+", "-", "*", "**", "|", "^", "&", "%"}
                THEN (IF Both(NumOrIface, ltype, rtype) THEN TypeOk(numberType) ELSE Mismatched)
                ELSE IF o = ".."
                THEN (IF Both(NumOrIface, ltype, rtype) THEN TypeOk(arrayType) ELSE Mismatched)
                ELSE IF o = "~"
                THEN (IF Both(StrOrIface, ltype, rtype) THEN TypeOk(textType) ELSE Mismatched)
                ELSE TypeOk(interfaceType)
      [] n.type = "propertyNode" ->
            LET ntype == Type(n.node, types)
            IN  IF ~ntype.ok THEN ntype
                ELSE IF fieldType(ntype.t, n.property).ok
                THEN TypeOk(fieldType(ntype.t, n.property).t)
                ELSE TypeErr("undefined (type has no field)")
      [] n.type = "indexNode" ->
            LET ntype == Type(n.node, types)
                itype == Type(n.index, types)
            IN  IF ~ntype.ok THEN ntype
                ELSE IF ~itype.ok THEN itype
                ELSE IF indexType(ntype.t).ok THEN TypeOk(indexType(ntype.t).t)
                ELSE TypeErr("invalid operation (type does not support indexing)")
      [] n.type = "methodNode" ->
            LET ntype == Type(n.node, types)
                Method(m) ==
                    IF m.ok /\ funcType(m.t).ok THEN TypeOk(funcType(m.t).t)
                    ELSE TypeErr("undefined (type has no method)")
            IN  IF ~ntype.ok THEN ntype
                ELSE TypeNodes(n.arguments, 1, types, Method(methodType(ntype.t, n.method)))
      [] n.type = "builtinNode" ->
            TypeNodes(n.arguments, 1, types,
                      IF n.name = "len" THEN TypeOk(numberType) ELSE TypeErr("undefined"))
      [] n.type = "functionNode" ->
            TypeNodes(n.arguments, 1, types,
                      IF n.name \in DOMAIN types /\ funcType(types[n.name]).ok
                      THEN TypeOk(funcType(types[n.name]).t)
                      ELSE TypeErr("unknown func"))
      [] n.type = "conditionalNode" ->
            LET ctype == Type(n.cond, types)
                t1 == Type(n.exp1, types)
                t2 == Type(n.exp2, types)
            IN  IF ~ctype.ok THEN ctype
                ELSE IF ~isBoolType(ctype.t) /\ ~isInterfaceType(ctype.t)
                THEN TypeErr("non-bool used as condition")
                ELSE IF ~t1.ok THEN t1
                ELSE IF ~t2.ok THEN t2
                ELSE IF t1.t = nilType /\ t2.t # nilType THEN TypeOk(t2.t)
                ELSE IF t1.t # nilType /\ t2.t = nilType THEN TypeOk(t1.t)
                ELSE IF t1.t = nilType /\ t2.t = nilType THEN TypeOk(nilType)
                ELSE IF AssignableTo(t1.t, t2.t) THEN TypeOk(t1.t)
                ELSE TypeOk(interfaceType)
      [] n.type = "arrayNode" -> TypeNodes(n.nodes, 1, types, TypeOk(arrayType))

\* a node of the table p.nameNodes, generated for a name
genNode(name) == [type |-> "genNode", name |-> name]

\* the node *node after p.Type(&node), with the table p.nameNodes: a name
\* that type-checks is replaced through the pointer.  The fields of a node
\* are visited in place, in the order of the Type method and as far as it
\* gets; the loops over arguments and elements hand p.Type the address of
\* their loop variable, a copy of the element.
RECURSIVE Typed(_, _, _)
Typed(n, types, nameNodes) ==
    LET Sub(m) == Typed(m, types, nameNodes)
        After(m, child) == IF Type(m, types).ok THEN Sub(child) ELSE child
        \* the copy is replaced, the element stays; a node the element
        \* points to is visited in place
        Ranged(nodes, reached) ==
            [i \in 1..Len(nodes) |->
                IF /\ reached
                   /\ \A j \in 1..(i - 1) : Type(nodes[j], types).ok
                   /\ nodes[i].type # "nameNode"
                THEN Sub(nodes[i])
                ELSE nodes[i]]
    IN
    CASE n.type = "nameNode" ->
            IF Type(n, types).ok /\ n.name \in DOMAIN nameNodes THEN nameNodes[n.name]
            ELSE n
      [] n.type \in {"unaryNode", "propertyNode"} -> [n EXCEPT !.node = Sub(n.node)]
      [] n.type = "binaryNode" ->
            [n EXCEPT !.left = Sub(n.left), !.right = After(n.left, n.right)]
      [] n.type = "indexNode" ->
            [n EXCEPT !.node = Sub(n.node), !.index = After(n.node, n.index)]
      [] n.type = "methodNode" ->
            [n EXCEPT !.node = Sub(n.node),
                      !.arguments = Ranged(n.arguments, Type(n.node, types).ok)]
      [] n.type \in {"builtinNode", "functionNode"} ->
            [n EXCEPT !.arguments = Ranged(n.arguments, TRUE)]
      [] n.type = "conditionalNode" ->
            LET ctype == Type(n.cond, types)
                checked == ctype.ok /\ (isBoolType(ctype.t) \/ isInterfaceType(ctype.t))
            IN  [n EXCEPT !.cond = Sub(n.cond),
                          !.exp1 = IF checked THEN Sub(n.exp1) ELSE n.exp1,
                          !.exp2 = IF checked /\ Type(n.exp1, types).ok THEN Sub(n.exp2)
                                   ELSE n.exp2]
      [] n.type = "arrayNode" -> [n EXCEPT !.nodes = Ranged(n.nodes, TRUE)]
      [] OTHER -> n

\* reflect.TypeOf of a Go value; an empty slice is taken as a []interface{}
RECURSIVE TypeOf(_)
StaticType(x) == IF x.tag = "iface" THEN interfaceType ELSE TypeOf(x)

TypeOf(x) ==
    CASE x = GoNil -> nilType
      [] x.tag = "iface" -> TypeOf(x.boxed)
      [] x.tag = "slice" ->
            [kind |-> "slice",
             elem |-> IF Len(x.elems) = 0 THEN interfaceType ELSE StaticType(x.elems[1])]
      [] x.tag = "range" -> [kind |-> "slice", elem |-> T(x.elem)]
      [] x.tag = "map" ->
            [kind |-> "map", key |-> T(x.key),
             elem |-> IF DOMAIN x.m = {} THEN interfaceType
                      ELSE StaticType(x.m[CHOOSE k \in DOMAIN x.m : TRUE])]
      [] x.tag = "struct" ->
            [kind |-> "struct", fields |-> [f \in DOMAIN x.fields |-> StaticType(x.fields[f])]]
      [] x.tag = "ptr" -> [kind |-> "ptr", elem |-> TypeOf(x.to)]
      [] x.tag = "rvalue" -> [kind |-> "struct", fields |-> [f \in {} |-> nilType]]
      [] OTHER -> T(x.tag)

\* the types table of the option Env(env): the types of the fields of a
\* struct, the types of the values under the string keys of a map
typesTable(env) ==
    IF env = GoNil THEN NoTypes
    ELSE IF env.tag = "struct" THEN TypeOf(env).fields
    ELSE IF env.tag = "map" /\ env.key = "string"
    THEN [name \in {k.s : k \in DOMAIN env.m} |-> TypeOf(env.m[StrV(name)])]
    ELSE NoTypes

\* the expression passes the type checker against the environment
WellTyped(n, env) == Type(n, typesTable(env)).ok

(***************************************************************************)
(* The compiler and the dispatch loop of the virtual machine, as the       *)
(* specification (sections 4.4 and 4.5) and the compiler's tests describe  *)
(* them.  A program is [Constants |-> <<..>>, Bytecode |-> <<..>>]; a cell *)
(* of the bytecode is an opcode or an operand byte.                        *)
(***************************************************************************)
MaxUint16 == 65535

Opc(name) == [k |-> "op", op |-> name, b |-> 0]

Byte(b) == [k |-> "byte", op |-> "", b |-> b]

\* a 16 bit operand, little-endian
Operand(x) == <<Byte(x % 256), Byte(x \div 256)>>

emit(prog, cells) == [Constants |-> prog.Constants, Bytecode |-> prog.Bytecode \o cells]

\* a pool to which every constant is appended
appendConstant(prog, c) ==
    [prog |-> [Constants |-> Append(prog.Constants, c), Bytecode |-> prog.Bytecode],
     idx |-> Len(prog.Constants)]

\* the index (from 0) of constant c in the pool, appended unless an equal
\* constant is there already
makeConstant(prog, c) ==
    IF \E j \in 1..Len(prog.Constants) : prog.Constants[j] = c
    THEN [prog |-> prog,
          idx |-> (CHOOSE j \in 1..Len(prog.Constants) : prog.Constants[j] = c) - 1]
    ELSE [prog |-> [Constants |-> Append(prog.Constants, c), Bytecode |-> prog.Bytecode],
          idx |-> Len(prog.Constants)]

emitConst(prog, opname, c) ==
    LET m == makeConstant(prog, c)
    IN  emit(m.prog, <<Opc(opname)>> \o Operand(m.idx))

\* a jump left with the offset 0 it was emitted with
unpatched(prog, at) == prog

\* the jump at cell `at` (its opcode) is made to land on the current end
patchJump(prog, at) ==
    LET delta == Len(prog.Bytecode) - (at + 2)
    IN  [Constants |-> prog.Constants,
         Bytecode |-> [j \in 1..Len(prog.Bytecode) |->
                          IF j = at + 1 THEN Byte(delta % 256)
                          ELSE IF j = at + 2 THEN Byte(delta \div 256)
                          ELSE prog.Bytecode[j]]]

BinaryOpcode(o) ==
    CASE o = "==" -> "OpEqual"  [] o = "!=" -> "OpNotEqual"
      [] o = "<" -> "OpLess"    [] o = ">" -> "OpMore"
      [] o = "<=" -> "OpLessEq" [] o = ">=" -> "OpMoreEq"
      [] o = "+" -> "OpAdd"     [] o = "-" -> "OpSub"
      [] o = "*" -> "OpMul"     [] o = "/" -> "OpDiv"
      [] o = "%" -> "OpMod"     [] o = "**" -> "OpExp"
      [] o = "~" -> "OpConcat"  [] o = ".." -> "OpRange"
      [] o = "in" -> "OpIn"     [] o = "not in" -> "OpNotIn"
      [] o = "|" -> "OpBitOr"   [] o = "^" -> "OpBitXor"
      [] o = "&" -> "OpBitAnd"

\* a literal that fits one byte only
fitsByte(f) == f.d = 1 /\ f.n >= 0 /\ f.n <= 255

\* the number literal f is pushed by OpPush: a whole number that fits the
\* 16 bit operand
fitsOperand(f) == f.d = 1 /\ f.n >= 0 /\ f.n <= MaxUint16

RECURSIVE compile(_, _)
RECURSIVE compileNodes(_, _, _)
compileNodes(nodes, i, prog) ==
    IF i > Len(nodes) THEN prog
    ELSE compileNodes(nodes, i + 1, compile(nodes[i], prog))

compile(n, prog) ==
    CASE n.type = "nilNode" -> emit(prog, <<Opc("OpNil")>>)
      [] n.type = "boolNode" ->
            emit(prog, <<Opc(IF n.value.b THEN "OpTrue" ELSE "OpFalse")>>)
      [] n.type = "numberNode" ->
            IF fitsOperand(n.value.f)
            THEN emit(prog, <<Opc("OpPush")>> \o Operand(n.value.f.n))
            ELSE IF n.value.f.d = 1 THEN emitConst(prog, "OpConst", Int64V(n.value.f.n))
            ELSE emitConst(prog, "OpConst", n.value)
      [] n.type \in {"textNode", "identifierNode"} -> emitConst(prog, "OpConst", n.value)
      [] n.type = "nameNode" -> emitConst(prog, "OpFetch", StrV(n.name))
      [] n.type = "unaryNode" ->
            LET p == compile(n.node, prog)
            IN  IF n.operator \in {"!", "not"} THEN emit(p, <<Opc("OpNot")>>)
                ELSE IF n.operator = "-" THEN emit(p, <<Opc("OpNegate")>>)
                ELSE p
      [] n.type = "binaryNode" ->
            IF n.operator \in {"and", "&&", "or", "||"}
            THEN LET p1 == compile(n.left, prog)
                     at == Len(p1.Bytecode) + 1
                     jmp == IF n.operator \in {"and", "&&"} THEN "OpJumpIfFalse"
                            ELSE "OpJumpIfTrue"
                     p2 == emit(p1, <<Opc(jmp)>> \o Operand(0) \o <<Opc("OpPop")>>)
                 IN  patchJump(compile(n.right, p2), at)
            ELSE emit(compile(n.right, compile(n.left, prog)),
                      <<Opc(BinaryOpcode(n.operator))>>)
      [] n.type = "indexNode" ->
            emit(compile(n.index, compile(n.node, prog)), <<Opc("OpIndex")>>)
      [] n.type = "propertyNode" ->
            emitConst(compile(n.node, prog), "OpProperty", StrV(n.property))
      [] n.type = "builtinNode" ->
            emitConst(compileNodes(n.arguments, 1, prog), "OpCall",
                      [tag |-> "Call", Name |-> n.name, Size |-> Len(n.arguments)])
      [] n.type = "conditionalNode" ->
            LET p1 == compile(n.cond, prog)
                at1 == Len(p1.Bytecode) + 1
                p2 == emit(p1, <<Opc("OpJumpIfFalse")>> \o Operand(0) \o <<Opc("OpPop")>>)
                p3 == compile(n.exp1, p2)
                at2 == Len(p3.Bytecode) + 1
                p4 == patchJump(emit(p3, <<Opc("OpJump")>> \o Operand(0)), at1)
            IN  patchJump(compile(n.exp2, p4), at2)
      [] n.type = "arrayNode" ->
            emit(compileNodes(n.nodes, 1, prog), <<Opc("OpArray")>> \o Operand(Len(n.nodes)))

Compile(n) == compile(n, [Constants |-> <<>>, Bytecode |-> <<>>])

\* the 16 bit operand after the opcode at cell pc
Arg(prog, pc) == prog.Bytecode[pc + 1].b + 256 * prog.Bytecode[pc + 2].b

Top(stack) == stack[Len(stack)]

Pop(stack, k) == SubSeq(stack, 1, Len(stack) - k)

\* what the instruction `name` computes from its operands a (below) and b (top)
vmBinary(name, a, b) ==
    LET Negated(o) == IF IsOk(o) THEN Ok(BoolV(~o.val)) ELSE o
        Boolean(o) == IF IsOk(o) THEN Ok(BoolV(o.val)) ELSE o
    IN  CASE name = "OpEqual" -> Boolean(vmEqual(a, b))
          [] name = "OpNotEqual" -> Negated(vmEqual(a, b))
          [] name = "OpLess" -> Boolean(less(a, b))
          [] name = "OpMore" -> Boolean(more(a, b))
          [] name = "OpLessEq" -> Boolean(lessOrEqual(a, b))
          [] name = "OpMoreEq" -> Boolean(moreOrEqual(a, b))
          [] name = "OpAdd" -> add(a, b)
          [] name = "OpSub" -> subtract(a, b)
          [] name = "OpMul" -> multiply(a, b)
          [] name = "OpDiv" -> divide(a, b)
          [] name = "OpMod" -> modulo(a, b)
          [] name = "OpExp" -> exponent(a, b)
          [] name = "OpConcat" ->
                IF a.tag # "string" \/ b.tag # "string" THEN BadAssert
                ELSE Ok(StrV(a.s \o b.s))
          [] name = "OpRange" -> vmMakeRange(a, b)
          [] name = "OpIn" -> Boolean(in(a, b))
          [] name = "OpNotIn" -> Negated(in(a, b))
          [] name = "OpIndex" -> fetch(a, b)

\* The dispatch loop from cell pc on.  pcs is the set of the cells at which
\* an instruction was executed.  A helper's panic ends the run.
RECURSIVE vmExec(_, _, _, _, _)
vmExec(prog, env, pc, stack, pcs) ==
    IF pc > Len(prog.Bytecode)
    THEN [kind |-> "ok", val |-> IF Len(stack) = 0 THEN GoNil ELSE Top(stack),
          msg |-> "", pcs |-> pcs]
    ELSE
    LET name == prog.Bytecode[pc].op
        seen == pcs \cup {pc}
        Step(o, k, width) ==
            IF IsOk(o) THEN vmExec(prog, env, pc + width, Append(Pop(stack, k), o.val), seen)
            ELSE [kind |-> o.kind, val |-> GoNil, msg |-> o.msg, pcs |-> seen]
    IN  CASE name = "OpPush" -> Step(Ok(IntV(Arg(prog, pc))), 0, 3)
          [] name = "OpPop" -> vmExec(prog, env, pc + 1, Pop(stack, 1), seen)
          [] name = "OpConst" -> Step(Ok(prog.Constants[Arg(prog, pc) + 1]), 0, 3)
          [] name = "OpFetch" -> Step(fetch(env, prog.Constants[Arg(prog, pc) + 1]), 0, 3)
          [] name = "OpTrue" -> Step(Ok(BoolV(TRUE)), 0, 1)
          [] name = "OpFalse" -> Step(Ok(BoolV(FALSE)), 0, 1)
          [] name = "OpNil" -> Step(Ok(GoNil), 0, 1)
          [] name = "OpNegate" -> Step(negate(Top(stack)), 1, 1)
          [] name = "OpNot" ->
                Step(IF Top(stack).tag = "bool" THEN Ok(BoolV(~Top(stack).b)) ELSE BadAssert, 1, 1)
          [] name = "OpProperty" ->
                Step(fetch(Top(stack), prog.Constants[Arg(prog, pc) + 1]), 1, 3)
          [] name = "OpJump" -> vmExec(prog, env, pc + 3 + Arg(prog, pc), stack, seen)
          [] name \in {"OpJumpIfTrue", "OpJumpIfFalse"} ->
                IF Top(stack).tag # "bool"
                THEN [kind |-> "panic", val |-> GoNil, msg |-> BadAssert.msg, pcs |-> seen]
                ELSE IF Top(stack).b = (name = "OpJumpIfTrue")
                THEN vmExec(prog, env, pc + 3 + Arg(prog, pc), stack, seen)
                ELSE vmExec(prog, env, pc + 3, stack, seen)
          [] name = "OpCall" ->
                LET call == prog.Constants[Arg(prog, pc) + 1]
                IN  IF call.Name = "len" /\ call.Size = 1
                    THEN Step(IF IsOk(length(Top(stack))) THEN Ok(IntV(length(Top(stack)).val))
                               ELSE length(Top(stack)), 1, 3)
                    ELSE [kind |-> "panic", val |-> GoNil, msg |-> "wrong call", pcs |-> seen]
          [] name = "OpArray" ->
                LET size == Arg(prog, pc)
                    elems == SubSeq(stack, Len(stack) - size + 1, Len(stack))
                IN  Step(Ok(SliceV([j \in 1..size |-> Box(elems[j])])), size, 3)
          [] OTHER -> Step(vmBinary(name, stack[Len(stack) - 1], Top(stack)), 2, 1)

\* vm.Run: a failure escaping from a helper becomes the error of the run
vmRun(prog, env) ==
    LET Recovered(r) ==
            IF IsOk(r) THEN [out |-> r.val, ok |-> TRUE, err |-> "", pcs |-> r.pcs]
            ELSE [out |-> GoNil, ok |-> FALSE, err |-> r.msg, pcs |-> r.pcs]
    IN  Recovered(vmExec(prog, env, 1, <<>>, {}))

(***************************************************************************)
(* The state machine.  Every action but Return is one use of the idle      *)
(* engine: it draws the inputs, evaluates them with the tree-walking       *)
(* evaluator and with the virtual machine, and records what both           *)
(* returned.  Invoke runs the tree-walker alone, CompileExpr the compiler  *)
(* alone, and TypeCheck, TypeName, TypeConditional and TypeGenerated the   *)
(* type checker alone; after TypeGenerated node is the tree the checker    *)
(* left.  Return hands the results back and leaves the engine idle.        *)
(*   op    the operation last performed                                    *)
(*   call  the helper call it made: the operands a and b, the outcome of   *)
(*         the tree-walker's helper (tree) and of the vm's helper (vm);    *)
(*         the program of CompileExpr (prog); the types table and the      *)
(*         result of the type checker (types, result), the tree it was     *)
(*         given and the table of generated nodes (parsed, nameNodes)      *)
(*   node  the expression evaluated, env its environment                   *)
(*   tree  what Run(node, env) returned, ev the nodes it evaluated         *)
(*   vm    what vm.Run(Compile(node), env) returned                        *)
(***************************************************************************)
VARIABLES op, call, node, env, tree, ev, vm

vars == <<op, call, node, env, tree, ev, vm>>

Ints == (0 - MaxNum)..MaxNum

NumVals ==
    {IntV(i) : i \in Ints} \cup {Int64V(i) : i \in Ints}
        \cup {Uint8V(i) : i \in 0..MaxNum}
        \cup {FloatV(i, d) : i \in Ints, d \in {1, 2}}

\* slices of element type int and of element type interface{}
Arrays ==
    UNION {{SliceV([j \in 1..k |-> IntV(j + 6)]),
            SliceV([j \in 1..k |-> Box(IF j = 1 THEN StrV("a") ELSE GoNil)])} : k \in 0..MaxLen}

\* maps of type map[string]int, map[string]interface{} and
\* map[interface{}]interface{}
Maps ==
    {[tag |-> "map", key |-> "string", m |-> (StrV("a") :> IntV(1))],
     [tag |-> "map", key |-> "string", m |-> (StrV("a") :> Box(GoNil) @@ StrV("b") :> Box(IntV(1)))],
     [tag |-> "map", key |-> "interface", m |-> (StrV("a") :> Box(BoolV(TRUE)) @@ IntV(1) :> Box(StrV("b")))]}

Scalars == {GoNil, BoolV(TRUE), BoolV(FALSE), StrV("a"), StrV("b")}

Vals == NumVals \cup Scalars \cup Arrays \cup Maps

\* a struct whose fields x and y hold a and b; a field that holds nil has
\* the type interface{}
Field(a) == IF a = GoNil THEN Box(a) ELSE a

EnvOf(a, b) == [tag |-> "struct", fields |-> [x |-> Field(a), y |-> Field(b)]]

X == nameNode("x")

Y == nameNode("y")

\* the state after expression n was evaluated in environment e by op o with
\* helper call c
Evaluated(o, c, n, e) ==
    LET Ran(v) == tree' = Returned(v) /\ ev' = v.ev
    IN  /\ op' = o
        /\ call' = c
        /\ node' = n
        /\ env' = e
        /\ Ran(Eval(n, e))
        /\ vm' = vmRun(Compile(n), e)

NoCall == [fn |-> "none"]

NoResult == [ok |-> TRUE, out |-> GoNil, err |-> ""]

Init ==
    /\ op = "idle"
    /\ call = NoCall
    /\ node = nilNode
    /\ env = GoNil
    /\ tree = NoResult
    /\ ev = <<>>
    /\ vm = NoResult

Return ==
    /\ op # "idle"
    /\ op' = "idle"
    /\ call' = NoCall
    /\ node' = nilNode
    /\ env' = GoNil
    /\ tree' = NoResult
    /\ ev' = <<>>
    /\ vm' = NoResult

ArithOps == {"+", "-", "*", "/", "%"}

vmArith(o, a, b) ==
    CASE o = "+" -> add(a, b)
      [] o = "-" -> subtract(a, b)
      [] o = "*" -> multiply(a, b)
      [] o = "/" -> divide(a, b)
      [] o = "%" -> modulo(a, b)

\* x OP y on two numbers
Arith ==
    /\ op = "idle"
    /\ \E o \in ArithOps, a \in NumVals, b \in NumVals :
        LET n == binaryNode(o, X, Y)
        IN  Evaluated("arith",
                      [fn |-> o, a |-> a, b |-> b,
                       tree |-> binaryOp(n, ValueOf(a), ValueOf(b)),
                       vm |-> vmArith(o, a, b)],
                      n, EnvOf(a, b))

\* x == y on two values
Equal ==
    /\ op = "idle"
    /\ \E a \in Vals, b \in Vals :
        Evaluated("equal",
                  [fn |-> "equal", a |-> a, b |-> b,
                   tree |-> equal(ValueOf(a), ValueOf(b)),
                   vm |-> vmEqual(a, b)],
                  binaryNode("==", X, Y), EnvOf(a, b))

RangeEnds ==
    {IntV(i) : i \in Ints \cup {MaxRangeSize - 1, MaxRangeSize}}
        \cup {FloatV(1, 2), FloatV(3, 2), FloatV(2, 1), StrV("a")}

\* x..y
Range ==
    /\ op = "idle"
    /\ \E a \in RangeEnds, b \in RangeEnds :
        LET n == binaryNode("..", X, Y)
        IN  Evaluated("range",
                      [fn |-> "makeRange", a |-> a, b |-> b,
                       tree |-> binaryOp(n, ValueOf(a), ValueOf(b)),
                       vm |-> vmMakeRange(a, b)],
                      n, EnvOf(a, b))

Indexes ==
    {IntV(i) : i \in -1..(MaxLen + 1)} \cup {FloatV(i, 1) : i \in -1..(MaxLen + 1)}
        \cup {StrV("a"), GoNil}

\* x[y] on an array
IndexAt ==
    /\ op = "idle"
    /\ \E xs \in Arrays, i \in Indexes :
        Evaluated("index",
                  [fn |-> "index", a |-> xs, b |-> i,
                   tree |-> extract(ValueOf(xs), ValueOf(i)),
                   vm |-> fetch(xs, i)],
                  indexNode(X, Y), EnvOf(xs, i))

Keys == {StrV("a"), StrV("b"), StrV("x"), IntV(1), IntV(2), BoolV(TRUE), GoNil}

\* x in y and y[x] on a map
Member ==
    /\ op = "idle"
    /\ \E k \in Keys, m \in Maps :
        Evaluated("member",
                  [fn |-> "in", a |-> k, b |-> m,
                   tree |-> contains(ValueOf(k), ValueOf(m)),
                   vm |-> in(k, m),
                   treeIndex |-> extract(ValueOf(m), ValueOf(k)),
                   vmIndex |-> fetch(m, k)],
                  binaryNode("in", X, Y), EnvOf(k, m))

Num(i) == numberNode(FloatV(i, 1))

Half == numberNode(FloatV(1, 2))

Needles == {StrV("a"), StrV("b"), FloatV(1, 1), FloatV(1, 2), IntV(1), BoolV(TRUE)}

ElemLiterals ==
    {textNode(StrV("a")), textNode(StrV("b")), Num(1), Half, boolNode(BoolV(TRUE))}

LiteralLists ==
    {<<>>} \cup {<<e>> : e \in ElemLiterals} \cup {<<e, f>> : e \in ElemLiterals, f \in ElemLiterals}

\* x in [e1, ..., en] and x not in [e1, ..., en] on an array literal
InLiteral ==
    /\ op = "idle"
    /\ \E o \in {"in", "not in"}, x \in Needles, es \in LiteralLists :
        Evaluated("inlit", [fn |-> o, a |-> x], binaryNode(o, X, arrayNode(es)),
                  EnvOf(x, GoNil))

Literals ==
    {nilNode, boolNode(BoolV(TRUE)), boolNode(BoolV(FALSE)), Half, textNode(StrV("a"))}
        \cup {Num(i) : i \in 0..MaxNum}

Leaves == Literals \cup {X, Y, nameNode("missing")}

UnaryOps == {"not", "!", "-", "+"}

LogicalOps == {"and", "&&", "or", "||"}

\* the binary operators for which package vm has a helper or a jump
BinaryOps ==
    {"==", "!=", "<", ">", "<=", ">=", "+", "-", "*", "/", "%", "..", "~", "in", "not in"}
        \cup LogicalOps

\* expressions whose evaluation fails: 1/0 == 0, an undefined name, the
\* negation of a number, an index out of range
Raising ==
    {binaryNode("==", binaryNode("/", Num(1), Num(0)), Num(0)),
     nameNode("missing"),
     unaryNode("not", Num(1)),
     indexNode(arrayNode(<<Num(1)>>), Num(1))}

Conds == {boolNode(BoolV(TRUE)), boolNode(BoolV(FALSE)), X, Num(1)}

Branches == {Num(1), textNode(StrV("a")), nilNode, Y, nameNode("missing")}

Exprs ==
    Leaves
        \cup {unaryNode(o, l) : o \in UnaryOps, l \in Leaves}
        \cup {binaryNode(o, l, r) : o \in BinaryOps, l \in Leaves, r \in Leaves}
        \cup {binaryNode(o, l, r) : o \in LogicalOps, l \in Leaves \cup Raising, r \in Raising}
        \cup {binaryNode(o, binaryNode(p, l, r), boolNode(BoolV(TRUE))) :
                 o \in LogicalOps, p \in LogicalOps, l \in Conds, r \in Conds}
        \cup {conditionalNode(c, a, b) : c \in Conds, a \in Branches, b \in Branches}
        \cup {arrayNode(<<>>), arrayNode(<<X>>), arrayNode(<<Num(1), Y>>)}
        \cup {indexNode(a, i) : a \in {X, Y, arrayNode(<<Num(1), textNode(StrV("a"))>>)},
                                i \in {Num(0), Num(1), Num(MaxLen), X, Half}}
        \cup {builtinNode("len", <<l>>) : l \in {X, Y, textNode(StrV("a"))}}

\* environments: structs with typed fields, a map[string]interface{}, a
\* map[string]int, and no environment
Envs ==
    {EnvOf(IntV(1), FloatV(1, 2)), EnvOf(BoolV(TRUE), BoolV(FALSE)),
     EnvOf(FloatV(2, 1), SliceV(<<IntV(7), IntV(8)>>)),
     EnvOf(StrV("a"), [tag |-> "map", key |-> "string", m |-> (StrV("a") :> IntV(1))]),
     [tag |-> "map", key |-> "string",
      m |-> (StrV("x") :> Box(BoolV(TRUE)) @@ StrV("y") :> Box(IntV(1)))],
     [tag |-> "map", key |-> "string", m |-> (StrV("x") :> IntV(1) @@ StrV("y") :> IntV(0))],
     GoNil}

LenArgs == Arrays \cup Maps \cup {StrV("a"), StrV("b"), IntV(1), FloatV(1, 2), BoolV(TRUE)}

\* len(), len(x) and len(x, y)
Length ==
    /\ op = "idle"
    /\ \E a \in LenArgs, args \in {<<>>, <<X>>, <<X, Y>>} :
        Evaluated("len", [fn |-> "len", a |-> a, vm |-> length(a)],
                  builtinNode("len", args), EnvOf(a, a))

\* the callables of the hosts: without a result, with one, with two, and
\* one that takes an argument
Funcs ==
    [M0 |-> FuncV(0, <<>>), M1 |-> FuncV(0, <<IntV(1)>>),
     M2 |-> FuncV(0, <<IntV(1), IntV(2)>>), Inc |-> FuncV(1, <<IntV(2)>>)]

\* a struct with the callables as methods, a map[string]interface{} that
\* holds them
Hosts ==
    {[tag |-> "struct", fields |-> [x |-> IntV(1)], methods |-> Funcs],
     [tag |-> "map", key |-> "string",
      m |-> [k \in {StrV(f) : f \in DOMAIN Funcs} |-> Box(Funcs[k.s])]]}

\* Run of the method call x.name(args) and of the function call name(args)
Invoke ==
    /\ op = "idle"
    /\ \E host \in Hosts, name \in DOMAIN Funcs \cup {"Missing"},
          args \in {<<>>, <<Num(1)>>}, method \in BOOLEAN :
        LET n == IF method THEN methodNode(X, name, args) ELSE functionNode(name, args)
            e == IF method THEN EnvOf(host, GoNil) ELSE host
            Ran(v) == tree' = Returned(v) /\ ev' = v.ev
        IN  /\ op' = "call"
            /\ call' = [fn |-> name,
                        a |-> IF name \in DOMAIN Funcs THEN Funcs[name] ELSE GoNil]
            /\ node' = n
            /\ env' = e
            /\ Ran(Eval(n, e))
            /\ vm' = NoResult

\* number literals around the limits of one byte and of 16 bits
NumLiterals ==
    {Num(i) : i \in {0, 1, 255, 256, MaxUint16 - 1, MaxUint16, MaxUint16 + 1, MaxRangeSize}}
        \cup {Num(i) : i \in 0..MaxNum} \cup {Half, numberNode(FloatV(3, 2))}

\* literals that go to the constant pool
ConstLiterals ==
    {textNode(StrV("a")), textNode(StrV("b")), Num(MaxUint16 + 1), Num(MaxRangeSize), Half}

CompileLeaves == {boolNode(BoolV(TRUE)), boolNode(BoolV(FALSE)), X, Num(1), Num(MaxUint16 + 1)}

Logicals == {binaryNode(o, a, b) : o \in LogicalOps, a \in CompileLeaves, b \in CompileLeaves}

\* the expressions compiled: literals, operations on pooled literals, and
\* nested and chained and/or, also under a conditional
CompileExprs ==
    NumLiterals \cup ConstLiterals
        \cup {binaryNode(o, a, b) : o \in {"==", "+"}, a \in ConstLiterals, b \in ConstLiterals}
        \cup {binaryNode("==", binaryNode("~", a, b), c) :
                 a \in ConstLiterals, b \in ConstLiterals, c \in ConstLiterals}
        \cup Logicals
        \cup {binaryNode(o, l, c) : o \in LogicalOps, l \in Logicals, c \in {X, Num(MaxUint16 + 1), boolNode(BoolV(TRUE))}}
        \cup {binaryNode(o, c, l) : o \in LogicalOps, l \in Logicals, c \in {X, Num(MaxUint16 + 1), boolNode(BoolV(TRUE))}}
        \cup {conditionalNode(l, Y, textNode(StrV("a"))) : l \in Logicals}

\* Compile(node)
CompileExpr ==
    /\ op = "idle"
    /\ \E n \in CompileExprs :
        /\ op' = "compile"
        /\ call' = [fn |-> "Compile", prog |-> Compile(n)]
        /\ node' = n
        /\ env' = GoNil
        /\ tree' = NoResult
        /\ ev' = <<>>
        /\ vm' = NoResult

\* types of names: nil, the scalars, containers, a struct, and pointers
PlainTypes ==
    {nilType, boolType, numberType, T("int"), textType, interfaceType, arrayType,
     [kind |-> "slice", elem |-> T("int")], mapType,
     [kind |-> "struct", fields |-> [a |-> T("int")]], T("func")}

Types ==
    PlainTypes
        \cup {[kind |-> "ptr", elem |-> t] :
                 t \in {boolType, T("int"), textType, interfaceType, arrayType, mapType,
                        [kind |-> "struct", fields |-> [a |-> T("int")]]}}

TypedOps == {"==", "!=", "in", "not in", "and", "<", "+", "..", "~"}

\* the type checker on -x, not x, x OP y and x OP nil, with the types of x
\* and y in the table
TypeCheck ==
    /\ op = "idle"
    /\ \E t1 \in Types, t2 \in Types :
        \E n \in {unaryNode(o, X) : o \in UnaryOps}
                    \cup {binaryNode(o, X, Y) : o \in TypedOps}
                    \cup {binaryNode(o, X, nilNode) : o \in {"==", "in"}} :
            /\ op' = "type"
            /\ call' = [fn |-> "Type", types |-> [x |-> t1, y |-> t2],
                        result |-> Type(n, [x |-> t1, y |-> t2])]
            /\ node' = n
            /\ env' = GoNil
            /\ tree' = NoResult
            /\ ev' = <<>>
            /\ vm' = NoResult

\* the types tables of the option Env: of an environment with no name,
\* and of one with the name x alone
Tables == {NoTypes} \cup {[x |-> t] : t \in Types}

\* the type checker on the name x or y; when no table was supplied
\* p.types holds no name
TypeName ==
    /\ op = "idle"
    /\ \E supplied \in BOOLEAN, n \in {X, Y} :
        \E types \in IF supplied THEN Tables ELSE {NoTypes} :
            /\ op' = "type"
            /\ call' = [fn |-> "nameNode.Type", supplied |-> supplied, types |-> types,
                        result |-> Type(n, types)]
            /\ node' = n
            /\ env' = GoNil
            /\ tree' = NoResult
            /\ ev' = <<>>
            /\ vm' = NoResult

\* types of the branches of a conditional
BranchTypes ==
    {nilType, boolType, numberType, T("int"), textType, interfaceType, arrayType,
     [kind |-> "ptr", elem |-> textType]}

\* the type checker on x ? a : b, where a is y or nil and b is z or nil,
\* with the types of x, y and z in the table
TypeConditional ==
    /\ op = "idle"
    /\ \E t0 \in Types, t1 \in BranchTypes, t2 \in BranchTypes :
        \E exp1 \in {Y, nilNode}, exp2 \in {nameNode("z"), nilNode} :
            /\ op' = "type"
            /\ call' = [fn |-> "conditionalNode.Type", types |-> [x |-> t0, y |-> t1, z |-> t2],
                        result |-> Type(conditionalNode(X, exp1, exp2),
                                        [x |-> t0, y |-> t1, z |-> t2])]
            /\ node' = conditionalNode(X, exp1, exp2)
            /\ env' = GoNil
            /\ tree' = NoResult
            /\ ev' = <<>>
            /\ vm' = NoResult

\* a struct type with a field and a method
HostType == [kind |-> "struct", fields |-> [a |-> boolType],
             methods |-> [m |-> [kind |-> "func", out |-> <<boolType>>]]]

\* types tables with the func f, and x and y or x alone
GenTypes ==
    {[x |-> tx, y |-> ty, f |-> [kind |-> "func", out |-> <<boolType>>]] :
        tx \in {boolType, interfaceType, HostType}, ty \in {boolType, interfaceType, arrayType}}
      \cup {[x |-> tx, f |-> [kind |-> "func", out |-> <<boolType>>]] :
                tx \in {boolType, HostType}}

\* tables of generated nodes, for some of the names x and y
GenTables ==
    {[name \in names |-> genNode(name)] : names \in SUBSET {"x", "y"}}

\* expressions with the names x and y at the root, as operands, as
\* arguments and as elements
GenExprs ==
    {X, unaryNode("not", X), binaryNode("==", X, Y), binaryNode("and", X, Y),
     propertyNode(X, "a"), indexNode(Y, X), conditionalNode(X, Y, X),
     methodNode(X, "m", <<Y>>), methodNode(X, "m", <<>>),
     builtinNode("len", <<Y>>), functionNode("f", <<X, Y>>),
     functionNode("f", <<unaryNode("not", X)>>),
     arrayNode(<<X, Y>>), arrayNode(<<binaryNode("==", X, Y), Num(1)>>),
     binaryNode("in", X, arrayNode(<<Y>>))}

\* the type checker on an expression, with a table of generated nodes
TypeGenerated ==
    /\ op = "idle"
    /\ \E n \in GenExprs, types \in GenTypes, nameNodes \in GenTables :
        /\ op' = "gen"
        /\ call' = [fn |-> "parser.Type", types |-> types, nameNodes |-> nameNodes,
                    parsed |-> n, result |-> Type(n, types)]
        /\ node' = Typed(n, types, nameNodes)
        /\ env' = GoNil
        /\ tree' = NoResult
        /\ ev' = <<>>
        /\ vm' = NoResult

\* environments that are maps
MapEnvs == {e \in Envs : e.tag = "map"}

\* a name, or a property of a name, looked up in an environment map
Lookup ==
    /\ op = "idle"
    /\ \E name \in {"x", "y", "missing"}, e \in MapEnvs :
        \E n \in {nameNode(name), propertyNode(nameNode(name), "Field")} :
            Evaluated("lookup", [fn |-> "name", a |-> StrV(name)], n, e)

\* Run(node, env) and vm.Run(Compile(node), env) of an expression
RunExpr ==
    /\ op = "idle"
    /\ \E n \in Exprs, e \in Envs : Evaluated("run", NoCall, n, e)

Next ==
    \/ Arith
    \/ Equal
    \/ Range
    \/ IndexAt
    \/ Member
    \/ InLiteral
    \/ Lookup
    \/ Length
    \/ Invoke
    \/ CompileExpr
    \/ TypeCheck
    \/ TypeName
    \/ TypeConditional
    \/ TypeGenerated
    \/ RunExpr
    \/ Return

Spec == Init /\ [][Next]_vars

(***************************************************************************)
(* Equivalence of the two evaluators.                                      *)
(***************************************************************************)
\* the number a numeric Go value stands for
NumberOf(a) == cast(ValueOf(a)).f

\* equality of two results modulo numeric promotion: numbers are compared
\* as numbers whatever their types, ranges by their endpoints
SameValue(a, b) ==
    IF a.tag \in NumericTags /\ b.tag \in NumericTags
    THEN FEq(NumberOf(a), NumberOf(b))
    ELSE IF a.tag = "range" /\ b.tag = "range"
    THEN a.len = b.len /\ (a.len > 0 => a.lo = b.lo)
    ELSE a.tag = b.tag /\ a = b

SameOutcome(t, v) == (t.ok <=> v.ok) /\ (t.ok /\ v.ok => SameValue(t.out, v.out))

\* C1: for every well-typed expression and every environment, the
\* tree-walker and the virtual machine produce the same outcome: both return
\* equal values (modulo numeric promotion) or both return an error.
C1_TreeRefinesVM ==
    (op = "run" /\ WellTyped(node, env)) => SameOutcome(tree, vm)

(***************************************************************************)
(* Short-circuit evaluation.                                               *)
(***************************************************************************)
\* the left operand of the logical node n evaluates to the boolean that
\* decides n: false for `and`, true for `or`
LeftDecides(n, e) ==
    LET left == Eval(n.left, e)
    IN  /\ IsOk(left)
        /\ IsOk(toBool(n.left, left.val))
        /\ toBool(n.left, left.val).val = (n.operator \in {"or", "||"})

\* C2: in `a and b` (also `&&`) the right operand is not evaluated when a is
\* false, and in `a or b` (also `||`) it is not evaluated when a is true: the
\* nodes evaluated are the node and those of its left operand, and the
\* result is the left operand's boolean with no error, whatever b would raise.
C2_ShortCircuit ==
    (op = "run" /\ node.type = "binaryNode" /\ node.operator \in LogicalOps
        /\ LeftDecides(node, env)) =>
        /\ ev = <<node>> \o Eval(node.left, env).ev
        /\ tree.ok
        /\ tree.out.tag = "bool"
        /\ tree.out.b = (node.operator \in {"or", "||"})

\* `false and (1/0 == 0)` was evaluated and gave false
C2_Witness ==
    /\ op = "run"
    /\ node = binaryNode("and", boolNode(BoolV(FALSE)),
                         binaryNode("==", binaryNode("/", Num(1), Num(0)), Num(0)))
    /\ tree.ok
    /\ tree.out = BoolV(FALSE)
    /\ Len(ev) = 2

(***************************************************************************)
(* Panics.                                                                 *)
(***************************************************************************)
\* C3: Run never lets a panic escape: a panic raised during the evaluation
\* is returned as an error together with a nil result, and every call of Run
\* returns either (value, nil) or (nil, err).  (Compile and the type checker
\* do not call Run.)
C3_RunRecovers ==
    op \notin {"idle", "compile", "type", "gen"} =>
        /\ ~tree.panicking
        /\ (RunBody(Eval(node, env)).panicking => ~tree.ok /\ tree.out.tag = "nil" /\ tree.err # "")
        /\ (tree.ok \/ tree.out.tag = "nil")
        /\ (tree.ok <=> tree.err = "")

\* `not 1` was evaluated: toBool panicked and Run returned the panic as an
\* error
C3_Witness ==
    /\ op = "run"
    /\ node = unaryNode("not", Num(1))
    /\ Eval(node, env).kind = "panic"
    /\ ~tree.ok
    /\ tree.out = GoNil

(***************************************************************************)
(* The operators on numbers.                                               *)
(***************************************************************************)
\* the outcome is an error (a returned error or a panic) with message m
FailsWith(o, m) == o.kind \in {"err", "panic"} /\ o.msg = m

IsZero(b) == FEq(NumberOf(b), FromInt(0))

\* C4: division by zero yields the error "division by zero": for every
\* numeric left operand, l / 0 with an integer or a float zero is an error
\* with that message and never a value, in the tree-walker and in the vm's
\* divide.
C4_DivisionByZero ==
    (op = "arith" /\ call.fn = "/" /\ IsZero(call.b)) =>
        /\ FailsWith(call.tree, "division by zero")
        /\ FailsWith(call.vm, "division by zero")

IsFloat(a) == a.tag \in FloatTags

IsInteger(a) == a.tag \in SignedTags \cup UnsignedTags

\* the operation on the two numbers as floats
FloatArith(o, x, y) ==
    CASE o = "+" -> FAdd(x, y)
      [] o = "-" -> FSub(x, y)
      [] o = "*" -> FMul(x, y)
      [] o = "/" -> FDiv(x, y)

\* C5: arithmetic promotion in the vm: for every pair of numeric operands of
\* add, subtract, multiply and divide (division by zero apart), if either
\* operand is a float both are coerced to float and the result is that float,
\* otherwise the result is an integer; a mixed pair never produces an error.
\* (Two integers of different Go types are left out: the specification has
\* one integer tag.)
C5_Promotion ==
    (op = "arith" /\ call.fn \in {"+", "-", "*", "/"}
        /\ ~(call.fn = "/" /\ IsZero(call.b))
        /\ (IsFloat(call.a) \/ IsFloat(call.b) \/ call.a.tag = call.b.tag)) =>
        /\ IsOk(call.vm)
        /\ IF IsFloat(call.a) \/ IsFloat(call.b)
           THEN /\ IsFloat(call.vm.val)
                /\ FEq(call.vm.val.f, FloatArith(call.fn, NumberOf(call.a), NumberOf(call.b)))
           ELSE IsInteger(call.vm.val)

(***************************************************************************)
(* Equality.                                                               *)
(***************************************************************************)
IsNumeric(a) == a.tag \in NumericTags

\* what the specification's equality gives for the outcome o of equal(a, b)
TypedEquality(o, a, b) ==
    /\ IsOk(o)
    /\ o.val \in BOOLEAN
    /\ (IsNumeric(a) /\ IsNumeric(b) /\ FEq(NumberOf(a), NumberOf(b)) => o.val)
    /\ (a.tag # b.tag /\ ~(IsNumeric(a) /\ IsNumeric(b)) => ~o.val)
    /\ (a.tag = "nil" \/ b.tag = "nil" => (o.val <=> a.tag = "nil" /\ b.tag = "nil"))

\* C6: equality is typed with numeric cross-comparison and nil tolerance:
\* for every pair of values equal(a, b) returns a boolean without failing,
\* true for two numbers of different numeric types that denote the same
\* number, false for values of different non-numeric types, and with a nil
\* side true only if both are nil; in the vm's equal and the tree-walker's.
C6_Equality ==
    op = "equal" =>
        /\ TypedEquality(call.vm, call.a, call.b)
        /\ TypedEquality(call.tree, call.a, call.b)

(***************************************************************************)
(* Modulo and range.                                                       *)
(***************************************************************************)
\* C7: modulo requires both operands to be integers: when at least one
\* operand is a float, a % b is an error and never a value, in the
\* tree-walker and in the vm's modulo; for two integers (of one type) with
\* b # 0 it is the integer remainder.
C7_Modulo ==
    (op = "arith" /\ call.fn = "%") =>
        /\ (IsFloat(call.a) \/ IsFloat(call.b) => ~IsOk(call.tree) /\ ~IsOk(call.vm))
        /\ (IsInteger(call.a) /\ call.a.tag = call.b.tag /\ ~IsZero(call.b) =>
                /\ IsOk(call.vm)
                /\ IsInteger(call.vm.val)
                /\ call.vm.val.i = Rem(call.a.i, call.b.i)
                /\ IsOk(call.tree)
                /\ FEq(NumberOf(call.tree.val.val), FromInt(Rem(call.a.i, call.b.i))))

\* an integer, or a float that holds a whole number
IsIntegral(a) == IsInteger(a) \/ (IsFloat(a) /\ a.f.d = 1)

IntegerOf(a) == IF IsInteger(a) THEN a.i ELSE a.f.n

\* the outcome is the array [lo, lo + 1, ..., hi]
IsRange(o, r, lo, hi) == IsOk(o) /\ r.tag = "range" /\ r.lo = lo /\ r.len = hi - lo + 1

\* C8: the range a..b requires both endpoints to be integers and yields the
\* array [a, a+1, ..., b]; whenever b - a + 1 exceeds 10^6 the result is an
\* error and no array is built, in the tree-walker's makeRange and the vm's.
C8_Range ==
    op = "range" =>
        LET a == call.a
            b == call.b
        IN  IF ~IsIntegral(a) \/ ~IsIntegral(b) \/ IntegerOf(b) - IntegerOf(a) + 1 > MaxRangeSize
            THEN ~IsOk(call.tree) /\ ~IsOk(call.vm)
            ELSE IntegerOf(a) <= IntegerOf(b) =>
                    /\ IsRange(call.tree, call.tree.val.val, IntegerOf(a), IntegerOf(b))
                    /\ IsRange(call.vm, call.vm.val, IntegerOf(a), IntegerOf(b))

IsIn(o) == IsOk(o) /\ o.val

\* extract returned a value: no panic, ok, and a valid reflect.Value
TreeDefined(o) == IsOk(o) /\ o.val.ok /\ IsValid(o.val.v)

\* C10: map membership agrees with map indexing: for every map m and key k,
\* `k in m` is true if and only if m[k] is defined (indexing returns a value
\* and not an error or nothing), in the tree-walker (contains against
\* extract) and in the vm (in against fetch).
C10_MemberIffDefined ==
    op = "member" =>
        /\ IsIn(call.tree) <=> TreeDefined(call.treeIndex)
        /\ IsIn(call.vm) <=> IsOk(call.vmIndex)

\* x equals one of the literals es
EqualsSome(x, es) == \E i \in 1..Len(es) : SameValue(x, es[i].value)

\* the result is the boolean b
IsBool(r, b) == r.ok /\ r.out.tag = "bool" /\ r.out.b = b

\* C11: membership in an array literal: x in [e1, ..., en] evaluates to true
\* if and only if x equals some ei, and x not in [e1, ..., en] to the
\* negation, in the tree-walker (contains over arrayNode.Eval) and in the vm.
C11_InLiteral ==
    op = "inlit" =>
        /\ IsBool(tree, EqualsSome(call.a, node.right.nodes) <=> call.fn = "in")
        /\ IsBool(vm, EqualsSome(call.a, node.right.nodes) <=> call.fn = "in")

(***************************************************************************)
(* Names.                                                                  *)
(***************************************************************************)
\* C12: a name that the environment map does not define is reported as
\* undefined: evaluating the bare name, or a property of it, returns the
\* error "undefined: <name>" and never a value or another error.
C12_Undefined ==
    (op = "lookup" /\ call.a \notin DOMAIN env.m) =>
        ~tree.ok /\ tree.err = "undefined: " \o call.a.s
(***************************************************************************)
(* The builtin len.                                                        *)
(***************************************************************************)
IsSequence(a) == a.tag \in {"slice", "string"}

SizeOf(a) == IF a.tag = "string" THEN Len(a.s) ELSE SliceLen(a)

\* the result is the number k
IsNumber(r, k) == r.ok /\ r.out.tag \in NumericTags /\ FEq(NumberOf(r.out), FromInt(k))

\* C13: len applied to exactly one argument that is an array, a slice or a
\* string returns the number of its elements; with no argument or more than
\* one it returns an error, and with an argument that is not a sequence it
\* returns an error; in builtinNode.Eval and in the vm's length.
C13_Len ==
    op = "len" =>
        IF Len(node.arguments) # 1 THEN ~tree.ok
        ELSE IF IsSequence(call.a)
        THEN /\ IsNumber(tree, SizeOf(call.a))
             /\ IsOk(call.vm)
             /\ call.vm.val = SizeOf(call.a)
        ELSE ~tree.ok /\ ~IsOk(call.vm)
(***************************************************************************)
(* Calls of host callables.                                                *)
(***************************************************************************)
\* C14: invoking a resolved callable yields exactly one result: a callable
\* that the host has, called with the arguments it takes, is resolved and
\* invoked; with one result the call yields that value, with none it
\* yields nil, with more than one it is an error.
C14_Invoke ==
    (op = "call" /\ call.a.tag = "func" /\ Len(node.arguments) = call.a.ins) =>
        IF Len(call.a.outs) = 1 THEN tree.ok /\ tree.out = call.a.outs[1]
        ELSE IF Len(call.a.outs) = 0 THEN tree.ok /\ tree.out = GoNil
        ELSE ~tree.ok
(***************************************************************************)
(* The compiler.                                                           *)
(***************************************************************************)
\* the literal n is a whole number
IsIntegerLiteral(n) == n.type = "numberNode" /\ n.value.f.d = 1

\* C15: a non-negative integer literal n with 0 <= n <= 65535 compiles to
\* exactly the three bytes OpPush, n mod 256, n div 256 with an empty
\* constant pool; a larger one, and every literal that is not an integer,
\* is placed in the constant pool and the bytecode is OpConst followed by
\* the 16 bit little-endian index of that constant.
C15_Literal ==
    (op = "compile" /\ node.type = "numberNode") =>
        IF IsIntegerLiteral(node) /\ node.value.f.n >= 0 /\ node.value.f.n <= 65535
        THEN /\ call.prog.Constants = <<>>
             /\ call.prog.Bytecode =
                    <<Opc("OpPush"), Byte(node.value.f.n % 256), Byte(node.value.f.n \div 256)>>
        ELSE /\ Len(call.prog.Constants) = 1
             /\ IF IsIntegerLiteral(node)
                THEN call.prog.Constants[1] = Int64V(node.value.f.n)
                ELSE call.prog.Constants[1] = node.value
             /\ call.prog.Bytecode = <<Opc("OpConst"), Byte(0), Byte(0)>>

\* 65535 was compiled to OpPush 255 255
C15_Witness ==
    /\ op = "compile"
    /\ node = Num(65535)
    /\ call.prog.Bytecode = <<Opc("OpPush"), Byte(255), Byte(255)>>

\* the constant that the pooled literal lit stands for
PoolValue(lit) == IF IsIntegerLiteral(lit) THEN Int64V(lit.value.f.n) ELSE lit.value

\* the instruction at cell pc is OpConst with the index of lit's constant
Refers(prog, pc, lit) ==
    /\ prog.Bytecode[pc] = Opc("OpConst")
    /\ Arg(prog, pc) < Len(prog.Constants)
    /\ prog.Constants[Arg(prog, pc) + 1] = PoolValue(lit)

NoDuplicates(pool) == \A i, j \in 1..Len(pool) : i # j => pool[i] # pool[j]

\* C16: constants are deduplicated by value equality: after compiling an
\* expression no two entries of the constant pool are equal, and every
\* occurrence of a literal refers to the pool entry of its value, so that
\* two occurrences of the same literal refer to the same index.
C16_Deduplicated ==
    op = "compile" =>
        /\ NoDuplicates(call.prog.Constants)
        /\ (node.type = "binaryNode" /\ node.operator \notin LogicalOps
                /\ node.left \in ConstLiterals /\ node.right \in ConstLiterals =>
                /\ Refers(call.prog, 1, node.left)
                /\ Refers(call.prog, 4, node.right)
                /\ (node.left = node.right =>
                        Len(call.prog.Constants) = 1 /\ Arg(call.prog, 1) = Arg(call.prog, 4)))
        /\ (node.type = "binaryNode" /\ node.operator \notin LogicalOps
                /\ node.left.type = "binaryNode" /\ node.right \in ConstLiterals
                /\ node.left.left \in ConstLiterals /\ node.left.right \in ConstLiterals =>
                /\ Refers(call.prog, 1, node.left.left)
                /\ Refers(call.prog, 4, node.left.right)
                /\ Refers(call.prog, 8, node.right))

\* "a" == "a" was compiled to a pool of one entry referred to twice
C16_Witness ==
    /\ op = "compile"
    /\ node = binaryNode("==", textNode(StrV("a")), textNode(StrV("a")))
    /\ call.prog.Constants = <<StrV("a")>>
    /\ call.prog.Bytecode =
          <<Opc("OpConst"), Byte(0), Byte(0), Opc("OpConst"), Byte(0), Byte(0), Opc("OpEqual")>>
\* the cells an instruction takes: the opcode and a 16 bit operand, if any
Width(cell) ==
    IF cell.op \in {"OpPush", "OpConst", "OpFetch", "OpProperty", "OpCall", "OpArray",
                    "OpJump", "OpJumpIfTrue", "OpJumpIfFalse"}
    THEN 3 ELSE 1

\* the cells from pc on at which an instruction begins, and the end
RECURSIVE Boundaries(_, _)
Boundaries(code, pc) ==
    IF pc > Len(code) THEN {pc} ELSE {pc} \cup Boundaries(code, pc + Width(code[pc]))

\* every jump of the program lands on an instruction or on the end
JumpsLand(prog) ==
    /\ Len(prog.Bytecode) + 1 \in Boundaries(prog.Bytecode, 1)
    /\ \A pc \in Boundaries(prog.Bytecode, 1) \cap 1..Len(prog.Bytecode) :
          prog.Bytecode[pc].op \in {"OpJump", "OpJumpIfTrue", "OpJumpIfFalse"} =>
              pc + 3 + Arg(prog, pc) \in Boundaries(prog.Bytecode, 1)

\* the code of n.right when compiled after n.left
CodeOfRight(n) ==
    compile(n.right, [Constants |-> Compile(n.left).Constants, Bytecode |-> <<>>]).Bytecode

\* C17: `a and b` compiles to code(a), OpJumpIfFalse D, OpPop, code(b) and
\* `a or b` to code(a), OpJumpIfTrue D, OpPop, code(b), where D is the
\* length of OpPop and code(b); and in every compiled program every jump
\* lands within the bytecode (at most on its end) on an instruction boundary.
C17_Jumps ==
    op = "compile" =>
        /\ JumpsLand(call.prog)
        /\ (node.type = "binaryNode" /\ node.operator \in LogicalOps =>
                call.prog.Bytecode =
                    Compile(node.left).Bytecode
                        \o <<Opc(IF node.operator \in {"and", "&&"} THEN "OpJumpIfFalse"
                                 ELSE "OpJumpIfTrue")>>
                        \o <<Byte((1 + Len(CodeOfRight(node))) % 256),
                              Byte((1 + Len(CodeOfRight(node))) \div 256)>>
                        \o <<Opc("OpPop")>>
                        \o CodeOfRight(node))

\* true && true || true was compiled to two jumps over OpPop, OpTrue
C17_Witness ==
    /\ op = "compile"
    /\ node = binaryNode("||", binaryNode("&&", boolNode(BoolV(TRUE)), boolNode(BoolV(TRUE))),
                         boolNode(BoolV(TRUE)))
    /\ call.prog.Bytecode =
          <<Opc("OpTrue"), Opc("OpJumpIfFalse"), Byte(2), Byte(0), Opc("OpPop"), Opc("OpTrue"),
            Opc("OpJumpIfTrue"), Byte(2), Byte(0), Opc("OpPop"), Opc("OpTrue")>>
(***************************************************************************)
(* The type checker.                                                       *)
(***************************************************************************)
\* the class of a type in the type rules, pointers followed
TypeClass(t) ==
    LET k == dereference(t).kind
    IN  CASE k = "nil" -> "Nil"
          [] k = "bool" -> "Bool"
          [] k \in NumericTags -> "Number"
          [] k = "string" -> "Text"
          [] k = "interface" -> "Interface"
          [] k \in {"slice", "array"} -> "Array"
          [] k = "map" -> "Map"
          [] k = "struct" -> "Struct"
          [] OTHER -> "Other"

\* the checker accepted the node with the type t
HasType(r, t) == r.ok /\ r.t = t

\* the type of the operand of a unary or the side of a binary node that is
\* the name x, y or nil
OperandType(n) == IF n.type = "nilNode" THEN nilType ELSE call.types[n.name]

\* C18: the type rule of the unary operators: for ! and not the operand
\* must be Bool or Interface and the result is Bool, otherwise a type
\* error; for unary - and + the operand must be Number or Interface and the
\* result is Number, otherwise a type error.
C18_UnaryRule ==
    (op = "type" /\ node.type = "unaryNode") =>
        IF node.operator \in {"!", "not"}
        THEN IF TypeClass(OperandType(node.node)) \in {"Bool", "Interface"}
             THEN HasType(call.result, boolType)
             ELSE ~call.result.ok
        ELSE IF TypeClass(OperandType(node.node)) \in {"Number", "Interface"}
             THEN HasType(call.result, numberType)
             ELSE ~call.result.ok
\* C19 as stated: `in` and `not in` type-check, with the result Bool, if
\* and only if the type of the right operand (pointers followed) is Array,
\* Map, Struct or Interface, whatever the type of the left operand; any
\* other right operand is a type error.
C19_InRule ==
    (op = "type" /\ node.type = "binaryNode" /\ node.operator \in {"in", "not in"}) =>
        IF TypeClass(OperandType(node.right)) \in {"Array", "Map", "Struct", "Interface"}
        THEN HasType(call.result, boolType)
        ELSE ~call.result.ok

\* C19 amended: `in` and `not in` type-check, with the result Bool, if and
\* only if the right operand's type (pointers followed) is Array, Map or
\* Interface, or it is Struct and the left operand's type is Text or
\* Interface; every other pair of types is a type error.
C19_InRuleAmended ==
    (op = "type" /\ node.type = "binaryNode" /\ node.operator \in {"in", "not in"}) =>
        IF \/ TypeClass(OperandType(node.right)) \in {"Array", "Map", "Interface"}
           \/ /\ TypeClass(OperandType(node.right)) = "Struct"
              /\ TypeClass(OperandType(node.left)) \in {"Text", "Interface"}
        THEN HasType(call.result, boolType)
        ELSE ~call.result.ok

\* an int `in` a pointer to a struct was rejected
C19_Witness ==
    /\ op = "type"
    /\ node = binaryNode("in", X, Y)
    /\ call.types.x = T("int")
    /\ call.types.y = [kind |-> "ptr", elem |-> [kind |-> "struct", fields |-> [a |-> T("int")]]]
    /\ ~call.result.ok
\* the two types, pointers followed, are comparable: both numeric, or one
\* is Interface, or they are the same type, or one is Nil
Comparable(l, r) ==
    \/ TypeClass(l) = "Number" /\ TypeClass(r) = "Number"
    \/ TypeClass(l) = "Interface" \/ TypeClass(r) = "Interface"
    \/ dereference(l) = dereference(r)
    \/ TypeClass(l) = "Nil" \/ TypeClass(r) = "Nil"

\* C20: `==` and `!=` type-check, with the result Bool, if and only if the
\* operand types, pointers followed, are comparable: both numeric, or at
\* least one Interface, or the same concrete type, or at least one Nil;
\* every other pair is a type error; and the rule is symmetric in the two
\* operands.
C20_EqualityRule ==
    (op = "type" /\ node.type = "binaryNode" /\ node.operator \in {"==", "!="}) =>
        /\ IF Comparable(OperandType(node.left), OperandType(node.right))
           THEN HasType(call.result, boolType)
           ELSE ~call.result.ok
        /\ Type(binaryNode(node.operator, node.right, node.left), call.types).ok
              = call.result.ok

\* a text was compared with an interface{} on the right, and accepted
C20_Witness ==
    /\ op = "type"
    /\ node = binaryNode("==", X, Y)
    /\ call.types.x = textType
    /\ call.types.y = interfaceType
    /\ HasType(call.result, boolType)

\* C21: the type rule of names: a name has the type the types table
\* records for it; a name missing from a supplied table is a type error;
\* when no types table was supplied, every name type-checks and has the
\* type Interface.
C21_NameRule ==
    (op = "type" /\ call.fn = "nameNode.Type") =>
        IF ~call.supplied THEN HasType(call.result, interfaceType)
        ELSE IF node.name \in DOMAIN call.types
        THEN HasType(call.result, call.types[node.name])
        ELSE ~call.result.ok

\* C22: the type rule of the conditional c ? a : b: c must have the type
\* Bool or Interface, otherwise a type error; the result is the common
\* supertype of the types of the branches: if exactly one branch is Nil
\* the type of the other, if the types of the branches are assignable a
\* type to which both branches are assignable, and otherwise Interface.
C22_ConditionalRule ==
    (op = "type" /\ node.type = "conditionalNode") =>
        LET Rule(t1, t2, r) ==
                IF t1 = nilType /\ t2 # nilType THEN HasType(r, t2)
                ELSE IF t1 # nilType /\ t2 = nilType THEN HasType(r, t1)
                ELSE IF AssignableTo(t1, t2) \/ AssignableTo(t2, t1)
                THEN r.ok /\ AssignableTo(t1, r.t) /\ AssignableTo(t2, r.t)
                ELSE HasType(r, interfaceType)
        IN  IF TypeClass(OperandType(node.cond)) \in {"Bool", "Interface"}
            THEN Rule(OperandType(node.exp1), OperandType(node.exp2), call.result)
            ELSE ~call.result.ok

\* the tree n with every name that has a generated node replaced by it,
\* wherever the name occurs
RECURSIVE Substituted(_, _)
Substituted(n, nameNodes) ==
    LET Sub(m) == Substituted(m, nameNodes)
        All(nodes) == [i \in 1..Len(nodes) |-> Sub(nodes[i])]
    IN
    CASE n.type = "nameNode" ->
            IF n.name \in DOMAIN nameNodes THEN nameNodes[n.name] ELSE n
      [] n.type \in {"unaryNode", "propertyNode"} -> [n EXCEPT !.node = Sub(n.node)]
      [] n.type = "binaryNode" -> [n EXCEPT !.left = Sub(n.left), !.right = Sub(n.right)]
      [] n.type = "indexNode" -> [n EXCEPT !.node = Sub(n.node), !.index = Sub(n.index)]
      [] n.type = "conditionalNode" ->
            [n EXCEPT !.cond = Sub(n.cond), !.exp1 = Sub(n.exp1), !.exp2 = Sub(n.exp2)]
      [] n.type = "methodNode" ->
            [n EXCEPT !.node = Sub(n.node), !.arguments = All(n.arguments)]
      [] n.type \in {"builtinNode", "functionNode"} ->
            [n EXCEPT !.arguments = All(n.arguments)]
      [] n.type = "arrayNode" -> [n EXCEPT !.nodes = All(n.nodes)]
      [] OTHER -> n

\* C23: after a successful type check of a tree with a table of generated
\* nodes, every name that has a generated node is replaced by that node
\* wherever it occurs in the tree: as the root, as an operand of a unary,
\* binary, conditional, property or index node, and equally as an argument
\* of a method, builtin or function call and as an element of an array.
C23_Generated ==
    (op = "gen" /\ call.result.ok) =>
        node = Substituted(call.parsed, call.nameNodes)

====
